---- MODULE Spec2Model ----
(***************************************************************************)
(* Verification model of pyhetdex: the comment skipper, the dither file    *)
(* parser (ParseDither / EmptyDither), the dither file writer               *)
(* (DitherCreator), the IFU center file parser (IFUCenter) and the list    *)
(* accessors of the configuration parser (ConfigParser).                   *)
(*                                                                         *)
(* A text file is a sequence of one-character strings; a cursor is a       *)
(* character offset (0 = start of file).  Floats are fixed-point integers  *)
(* in units of 10^-6 (Micro).                                              *)
(***************************************************************************)
EXTENDS Integers, Sequences, FiniteSets, TLC

VARIABLES
    text,      \* contents of the file being read
    pos,       \* cursor of the file object (character offset)
    isopen,    \* the file object is open
    op,        \* last operation made on the cursor: "none", "skip", "read"
    start,     \* cursor when the last skip_comments call began
    nskip,     \* number of skip_comments calls made in a row
    line,      \* the line the last read returned
    basename,  \* _BaseDither.basename: dither key -> basename
    dx,        \* _BaseDither.dx
    dy,        \* _BaseDither.dy
    seeing,    \* _BaseDither.seeing
    norm,      \* _BaseDither.norm
    airmass,   \* _BaseDither.airmass
    loc,       \* locals of _read_dither: the names _bn .. _airmass, bound or not
    pc,        \* where the dither constructor is: "new", "loop", "done", "raised"
    err,       \* the exception the constructor raised, or "none"
    cls,       \* the class under construction: "none", "EmptyDither", "ParseDither"
    hist,      \* one entry per pass of the loop: the line read and the key derived
    dither_positions,  \* argument of DitherCreator.__init__: rows [id, values]
    ifu_dxs,   \* DitherCreator.ifu_dxs: identifier -> x shifts
    ifu_dys,   \* DitherCreator.ifu_dys: identifier -> y shifts
    cpc,       \* where the DitherCreator is: "new", "ready", "raised"
    cerr,      \* the exception the last DitherCreator call raised, or "none"
    outfile,   \* the output file on disk: whether it exists, and its contents
    call,      \* arguments of the last create_dither call
    ifuid,     \* IFUCenter.ifuid
    fiber_d,   \* IFUCenter.fiber_d
    fiber_sep, \* IFUCenter.fiber_sep
    nfibx,     \* IFUCenter.nfibx
    nfiby,     \* IFUCenter.nfiby
    n_fibers,  \* IFUCenter.n_fibers: channel -> number of fibers
    xifu,      \* IFUCenter.xifu: channel -> x positions
    yifu,      \* IFUCenter.yifu: channel -> y positions
    fib_number,  \* IFUCenter.fib_number: channel -> fiber numbers
    throughput,  \* IFUCenter.throughput: channel -> throughputs
    ipc,       \* where the IFUCenter constructor is:
               \* "new", "header", "body", "rows", "done", "raised"
    ierr,      \* the exception the IFUCenter constructor raised, or "none"
    seen,      \* one entry per line the IFUCenter constructor read: the
               \* phase it was read in and the line
    conf,      \* the configuration store: section -> option -> value
    ret,       \* the last call of a list accessor: arguments and outcome
    args,      \* the namespace given to override_conf: attribute -> value
    opc,       \* where override_conf is: "new", "done"
    workers_dict,  \* processes._workers_dict: name -> worker
    created,   \* number of _Worker instances built so far
    got,       \* the last get_worker call: arguments and the worker returned
    pool,      \* _Worker._pool: its state, and whether it was joined
    always_wait,   \* _Worker._always_wait
    jobs,      \* _Worker._jobs: the jobs in submission order
    wres,      \* the last call made on the worker: arguments and outcome
    fpc,       \* where DitherCreator.from_file is: "new", "loop", "done", "raised"
    ferr,      \* the exception from_file raised, or "none"
    prev       \* the DitherSet a previous ParseDither of the same file built

fileVars == <<text, pos, isopen>>
skipVars == <<op, start, nskip, line>>
ditherVars == <<basename, dx, dy, seeing, norm, airmass, loc, pc, err, cls, hist>>
creatorVars == <<dither_positions, ifu_dxs, ifu_dys, cpc, cerr, outfile, call>>
ifuVars == <<ifuid, fiber_d, fiber_sep, nfibx, nfiby, n_fibers, xifu, yifu,
             fib_number, throughput, ipc, ierr, seen>>
confVars == <<conf, ret>>
overVars == <<args, opc>>
regVars == <<workers_dict, created, got>>
workerVars == <<pool, always_wait, jobs, wres>>
fromVars == <<fpc, ferr>>
lateVars == <<overVars, regVars, workerVars, fromVars, prev>>
restVars == <<ifuVars, confVars, lateVars>>

\* ------------------------------------------------------------------ bounds
MaxText == 6      \* characters in a file of the comment-skipper specification
MaxSkips == 2     \* cap of the nskip history counter
MaxLines == 3     \* lines in a dither file
MaxRows == 2      \* rows of a dither position table
MaxVals == 4      \* trailing values of a generated dither position row
MaxNames == 3     \* basenames / modelbases passed to create_dither

\* --------------------------------------------------------------- characters
NL == "\n"
HASH == "#"
SP == " "

\* ------------------------------------------------------- line-oriented reads
\* Offset just after the line that starts at offset p: the position after the
\* next newline, or the end of the text.
RECURSIVE LineEnd(_, _)
LineEnd(t, p) ==
    IF p >= Len(t) THEN Len(t)
    ELSE IF t[p + 1] = NL THEN p + 1
    ELSE LineEnd(t, p + 1)

\* The line a file iterator returns at offset p (newline included).
ReadLine(t, p) == SubSeq(t, p + 1, LineEnd(t, p))

\* str.startswith for a one-character prefix
StartsWith(l, c) == Len(l) >= 1 /\ l[1] = c

\* skip_comments with the non-comment line consumed as well (pos advanced past
\* the line that ends the loop).
RECURSIVE SkipLoopConsuming(_, _, _)
SkipLoopConsuming(t, rd, p) ==
    IF rd >= Len(t) THEN p
    ELSE LET l == ReadLine(t, rd) IN
         IF StartsWith(l, HASH)
         THEN SkipLoopConsuming(t, rd + Len(l), p + Len(l))
         ELSE p + Len(l)

\* skip_comments counting a comment line without its newline.
RECURSIVE SkipLoopNoNewline(_, _, _)
SkipLoopNoNewline(t, rd, p) ==
    IF rd >= Len(t) THEN p
    ELSE LET l == ReadLine(t, rd) IN
         IF StartsWith(l, HASH)
         THEN SkipLoopNoNewline(t, rd + Len(l), p + Len(l) - 1)
         ELSE p

\* The loop of skip_comments: rd is the read position of the iterator, p the
\* value of the local `pos`.
RECURSIVE SkipLoop(_, _, _)
SkipLoop(t, rd, p) ==
    IF rd >= Len(t) THEN p
    ELSE LET l == ReadLine(t, rd) IN
         IF StartsWith(l, HASH)
         THEN SkipLoop(t, rd + Len(l), p + Len(l))
         ELSE p

\* skip_comments(f): pos = f.tell(); loop; f.seek(pos).  The result is the
\* new cursor.
skip_comments(t, p) == SkipLoop(t, p, p)

\* ------------------------------------------------------------------------
\* Strings: str.split, re.findall(r'D\d', .), float(.)
\* ------------------------------------------------------------------------
TAB == "\t"

IsSpace(c) == c \in {SP, NL, TAB}

Digits == <<"0", "1", "2", "3", "4", "5", "6", "7", "8", "9">>

IsDigit(c) == \E i \in 1..10 : Digits[i] = c

DigitVal(c) == (CHOOSE i \in 1..10 : Digits[i] = c) - 1

Range(f) == {f[i] : i \in DOMAIN f}

\* str.split() without arguments: the maximal runs of non-whitespace
RECURSIVE SplitFrom(_, _, _, _)
SplitFrom(l, i, cur, acc) ==
    IF i > Len(l) THEN (IF cur = <<>> THEN acc ELSE Append(acc, cur))
    ELSE IF IsSpace(l[i])
         THEN SplitFrom(l, i + 1, <<>>, IF cur = <<>> THEN acc ELSE Append(acc, cur))
         ELSE SplitFrom(l, i + 1, Append(cur, l[i]), acc)

Split(l) == SplitFrom(l, 1, <<>>, <<>>)

\* re.findall(r'D\d', s): the non-overlapping matches, left to right
RECURSIVE FindAllFrom(_, _)
FindAllFrom(s, i) ==
    IF i + 1 > Len(s) THEN <<>>
    ELSE IF s[i] = "D" /\ IsDigit(s[i + 1])
         THEN <<SubSeq(s, i, i + 1)>> \o FindAllFrom(s, i + 2)
         ELSE FindAllFrom(s, i + 1)

FindAll(s) == FindAllFrom(s, 1)

\* fixed-point scale of a float: 10^-6
FracDigits == 6
Micro == 10 ^ FracDigits

ValueError == "ValueError"

AllDigits(s) == \A i \in 1..Len(s) : IsDigit(s[i])

RECURSIVE DigitsVal(_)
DigitsVal(s) ==
    IF s = <<>> THEN 0
    ELSE 10 * DigitsVal(SubSeq(s, 1, Len(s) - 1)) + DigitVal(s[Len(s)])

IndexOf(s, c) ==
    IF \E i \in 1..Len(s) : s[i] = c
    THEN CHOOSE i \in 1..Len(s) : s[i] = c /\ \A j \in 1..(i - 1) : s[j] # c
    ELSE 0

\* the parts of a token read as [+-]digits[.digits]
FloatParts(tok) ==
    LET neg == StartsWith(tok, "-")
        body == IF neg \/ StartsWith(tok, "+") THEN Tail(tok) ELSE tok
        dot == IndexOf(body, ".")
    IN  [neg |-> neg,
         ip |-> IF dot = 0 THEN body ELSE SubSeq(body, 1, dot - 1),
         fp |-> IF dot = 0 THEN <<>> ELSE SubSeq(body, dot + 1, Len(body))]

\* float(tok) succeeds: the token is [+-]digits[.digits] with at least one
\* digit (and at most FracDigits decimals); otherwise float raises ValueError
IsFloat(tok) ==
    LET q == FloatParts(tok) IN
    /\ AllDigits(q.ip) /\ AllDigits(q.fp)
    /\ Len(q.ip) + Len(q.fp) >= 1 /\ Len(q.fp) <= FracDigits

\* float(tok) of such a token, in units of 10^-6
ParseFloat(tok) ==
    LET q == FloatParts(tok)
        mag == DigitsVal(q.ip) * Micro
               + DigitsVal(q.fp) * 10 ^ (FracDigits - Len(q.fp))
    IN  IF q.neg THEN 0 - mag ELSE mag

\* d.setdefault(k, v): an entry already present is kept
PutIfAbsent(d, k, v) ==
    [x \in (DOMAIN d) \cup {k} |-> IF x \in DOMAIN d THEN d[x] ELSE v]

\* d[k] = v on a dictionary
Put(d, k, v) == [x \in (DOMAIN d) \cup {k} |-> IF x = k THEN v ELSE d[x]]

\* ------------------------------------------------------------------------
\* Specification of the comment skipper alone: a file of arbitrary
\* characters, read line by line and passed to skip_comments in any order.
\* ------------------------------------------------------------------------
Alphabet == {HASH, "a", NL}

\* the locals of _read_dither before any line has bound them
Unbound ==
    [bound |-> FALSE, bn |-> <<>>, d |-> <<>>, x |-> <<>>, y |-> <<>>,
     seeing |-> <<>>, norm |-> <<>>, airmass |-> <<>>]

SkipIdle == op = "none" /\ start = 0 /\ nskip = 0 /\ line = <<>>

DitherIdle ==
    /\ basename = <<>> /\ dx = <<>> /\ dy = <<>>
    /\ seeing = <<>> /\ norm = <<>> /\ airmass = <<>>
    /\ loc = Unbound /\ pc = "new" /\ err = "none" /\ cls = "none" /\ hist = <<>>

NoCall == [id |-> "", idtype |-> "", basenames |-> <<>>, modelbases |-> <<>>]

NoFile == [exists |-> FALSE, data |-> <<>>]

CreatorIdle ==
    /\ dither_positions = <<>> /\ ifu_dxs = <<>> /\ ifu_dys = <<>>
    /\ cpc = "new" /\ cerr = "none" /\ outfile = NoFile /\ call = NoCall

\* Python values of more than one type: None, int, float, str, bool
PyNone == [type |-> "None", i |-> 0, s |-> <<>>, b |-> FALSE]

PyInt(n) == [type |-> "int", i |-> n, s |-> <<>>, b |-> FALSE]

PyFloat(n) == [type |-> "float", i |-> n, s |-> <<>>, b |-> FALSE]

PyStr(x) == [type |-> "str", i |-> 0, s |-> x, b |-> FALSE]

PyBool(x) == [type |-> "bool", i |-> 0, s |-> <<>>, b |-> x]

IfuIdle ==
    /\ ifuid = PyNone /\ fiber_d = 0 /\ fiber_sep = 0 /\ nfibx = 0 /\ nfiby = 0
    /\ n_fibers = <<>> /\ xifu = <<>> /\ yifu = <<>>
    /\ fib_number = <<>> /\ throughput = <<>>
    /\ ipc = "new" /\ ierr = "none" /\ seen = <<>>

NoRet ==
    [fn |-> "none", section |-> "", option |-> "", use_default |-> FALSE,
     cast_to |-> "", raised |-> "none", value |-> <<>>]

ConfIdle == conf = <<>> /\ ret = NoRet

OverIdle == args = <<>> /\ opc = "new"

NoGot ==
    [name |-> "", multiprocessing |-> FALSE, always_wait |-> FALSE,
     worker |-> 0, fresh |-> FALSE]

RegIdle == workers_dict = <<>> /\ created = 0 /\ got = NoGot

\* _pool is None: the worker runs its jobs in the calling process
NoPool == [state |-> "none", joined |-> FALSE]

NoOp ==
    [op |-> "none", fail_safe |-> FALSE, exc |-> FALSE, raised |-> "none",
     value |-> <<>>, suppress |-> FALSE]

WorkerIdle ==
    pool = NoPool /\ always_wait = FALSE /\ jobs = <<>> /\ wres = NoOp

FromIdle == fpc = "new" /\ ferr = "none"

NoPrev ==
    [set |-> FALSE, err |-> "none", basename |-> <<>>, dx |-> <<>>, dy |-> <<>>,
     seeing |-> <<>>, norm |-> <<>>, airmass |-> <<>>]

LateIdle == OverIdle /\ RegIdle /\ WorkerIdle /\ FromIdle /\ prev = NoPrev

RestIdle == IfuIdle /\ ConfIdle /\ LateIdle

Texts(n) == UNION {[1..k -> Alphabet] : k \in 0..n}

InitSkip ==
    /\ text \in Texts(MaxText)
    /\ pos = 0
    /\ isopen = TRUE
    /\ SkipIdle
    /\ DitherIdle
    /\ CreatorIdle
    /\ RestIdle

\* skip_comments(f) on the open file
SkipCommentsCall ==
    /\ isopen
    /\ pos' = skip_comments(text, pos)
    /\ start' = pos
    /\ op' = "skip"
    /\ nskip' = IF nskip < MaxSkips THEN nskip + 1 ELSE nskip
    /\ UNCHANGED <<text, isopen, line>>
    /\ UNCHANGED <<ditherVars, creatorVars, restVars>>

\* next(f) / f.readline(): one line is read, the cursor moves past it
ReadLineCall ==
    /\ isopen
    /\ pos < Len(text)
    /\ line' = ReadLine(text, pos)
    /\ pos' = LineEnd(text, pos)
    /\ op' = "read"
    /\ nskip' = 0
    /\ UNCHANGED <<text, isopen, start>>
    /\ UNCHANGED <<ditherVars, creatorVars, restVars>>

NextSkip == SkipCommentsCall \/ ReadLineCall

vars == <<fileVars, skipVars, ditherVars, creatorVars, restVars>>

SpecSkip == InitSkip /\ [][NextSkip]_vars

\* ------------------------------------------------------------ claims C1, C2
IsLineStart(t, q) == q = 0 \/ (q <= Len(t) /\ t[q] = NL)

\* q is where the claim says the cursor must be after skipping from s: the
\* start of a line that is not a comment (or the end of input), with only
\* comment lines between s and q.
IsFirstNonComment(t, s, q) ==
    /\ q \in s..Len(t)
    /\ \/ q = Len(t)
       \/ IsLineStart(t, q) /\ t[q + 1] # HASH
    /\ \A r \in s..(q - 1) : IsLineStart(t, r) => t[r + 1] = HASH

\* C1: after skip_comments called at a line start, the cursor is at the start
\* of the first line at or after the starting position that does not begin
\* with '#', or at end-of-input when every remaining line is a comment; the
\* line the next read yields is that line (it does not begin with '#').
C1_SkipLandsOnFirstNonComment ==
    (op = "skip" /\ IsLineStart(text, start)) =>
        /\ IsFirstNonComment(text, start, pos)
        /\ pos < Len(text) => ~StartsWith(ReadLine(text, pos), HASH)

\* a call that skipped at least one comment line and stopped before a
\* non-comment line that is not the last of the file
C1_Witness ==
    /\ op = "skip"
    /\ IsLineStart(text, start)
    /\ start > 0
    /\ pos > start
    /\ pos < Len(text)
    /\ LineEnd(text, pos) < Len(text)

\* C2: skip_comments called with the cursor at the start of a non-comment
\* line or at end-of-input, and in particular called right after another
\* skip_comments call, leaves the cursor where it was.
C2_SkipIsReenterable ==
    [][ (op' = "skip" /\
         (op = "skip" \/ (IsLineStart(text, pos) /\ IsFirstNonComment(text, pos, pos))))
        => pos' = pos ]_vars

\* two calls in a row, the first of which moved the cursor
C2_Witness ==
    /\ op = "skip"
    /\ nskip = 2
    /\ pos > 0
    /\ pos < Len(text)

\* ------------------------------------------------------------------------
\* Dither files: ParseDither and EmptyDither
\* ------------------------------------------------------------------------
RECURSIVE Join(_)
Join(fields) ==
    IF fields = <<>> THEN <<>>
    ELSE IF Len(fields) = 1 THEN fields[1]
    ELSE fields[1] \o <<SP>> \o Join(Tail(fields))

\* a line of a text file made of the given fields
Line(fields) == Join(fields) \o <<NL>>

RECURSIVE Concat(_)
Concat(ls) == IF ls = <<>> THEN <<>> ELSE ls[1] \o Concat(Tail(ls))

\* The lines a dither file of the model is made of: comments, complete data
\* lines (basename modelbase ditherx dithery seeing norm airmass), empty and
\* incomplete lines.
DitherLines ==
    { Line(<<<<"#">>, <<"c">>>>),
      Line(<<<<"#">>, <<"m">>, <<"x">>, <<"y">>, <<"s">>, <<"n">>, <<"a">>>>),
      Line(<<<<"a", "D", "1">>, <<"a", "D", "1">>, <<"0">>, <<"0">>,
             <<"1", ".", "6">>, <<"1">>, <<"1", ".", "2", "2">>>>),
      Line(<<<<"a", "D", "2">>, <<"a", "D", "2">>, <<"0", ".", "6", "1">>,
             <<"1", ".", "0", "7">>, <<"1", ".", "6">>, <<"1">>, <<"1", ".", "2", "2">>>>),
      Line(<<<<"b", "D", "1">>, <<"b", "D", "1">>, <<"1", ".", "2", "3">>, <<"0">>,
             <<"1", ".", "5">>, <<"2">>, <<"1", ".", "3">>>>),
      Line(<<<<"x">>, <<"D", "1">>, <<"0", ".", "5">>, <<"0", ".", "5">>,
             <<"1">>, <<"1">>, <<"1">>>>),
      Line(<<<<"D", "1", "D", "1">>, <<"D", "1", "D", "1">>, <<"2">>, <<"2">>,
             <<"1">>, <<"1">>, <<"1">>>>),
      Line(<<<<"c", "D", "1", "D", "1">>, <<"m">>, <<"2">>, <<"2">>,
             <<"1">>, <<"1">>, <<"1">>>>),
      Line(<<<<"D", "1", "D", "2">>, <<"D", "1", "D", "2">>, <<"3">>, <<"3">>,
             <<"1">>, <<"1">>, <<"1">>>>),
      Line(<<>>),
      Line(<<<<"a", "D", "2">>, <<"a", "D", "2">>, <<"0">>, <<"q">>,
             <<"1">>, <<"1">>, <<"1">>>>),
      Line(<<<<"x">>, <<"x">>, <<"0">>, <<"0">>, <<"1">>, <<"1">>, <<"1">>>>) }

DitherFiles == {Concat(ls) : ls \in UNION {[1..k -> DitherLines] : k \in 0..MaxLines}}

InitDither ==
    /\ text \in DitherFiles
    /\ pos = 0
    /\ isopen = FALSE
    /\ SkipIdle
    /\ DitherIdle
    /\ CreatorIdle
    /\ RestIdle

\* EmptyDither.__init__ / _no_dither: a single dither D1
EmptyDither ==
    /\ pc = "new"
    /\ LET d == <<"D", "1">> IN
        /\ basename' = Put(basename, d, <<>>)
        /\ dx' = Put(dx, d, 0)
        /\ dy' = Put(dy, d, 0)
        /\ seeing' = Put(seeing, d, Micro)
        /\ norm' = Put(norm, d, Micro)
        /\ airmass' = Put(airmass, d, Micro)
    /\ pc' = "done"
    /\ cls' = "EmptyDither"
    /\ UNCHANGED <<loc, err, hist>>
    /\ UNCHANGED <<fileVars, skipVars, creatorVars, restVars>>

\* ParseDither.__init__ up to the loop of _read_dither: the file is opened
\* and the leading comments are skipped
ParseDitherOpen ==
    /\ pc = "new"
    /\ isopen' = TRUE
    /\ pos' = skip_comments(text, 0)
    /\ pc' = "loop"
    /\ cls' = "ParseDither"
    /\ UNCHANGED <<text, skipVars, creatorVars, restVars>>
    /\ UNCHANGED <<basename, dx, dy, seeing, norm, airmass, loc, err, hist>>

\* an unpacking that unbinds the seven names when the line does not have
\* seven fields
UnpackOrUnbind(l, old) ==
    LET f == Split(l) IN
    IF Len(f) = 7
    THEN [bound |-> TRUE, bn |-> f[1], d |-> f[2], x |-> f[3], y |-> f[4],
          seeing |-> f[5], norm |-> f[6], airmass |-> f[7]]
    ELSE Unbound

\* the names bound by `_bn, _d, _x, _y, _seeing, _norm, _airmass = l.split()`:
\* all seven when the line has seven fields, none otherwise (ValueError, pass)
Unpack(l, old) ==
    LET f == Split(l) IN
    IF Len(f) = 7
    THEN [bound |-> TRUE, bn |-> f[1], d |-> f[2], x |-> f[3], y |-> f[4],
          seeing |-> f[5], norm |-> f[6], airmass |-> f[7]]
    ELSE old

\* the string the pattern D\d is searched in
KeySource(l) == l.d

\* the floats of a line in the order they are converted and stored
FloatFields(l) == <<l.x, l.y, l.seeing, l.norm, l.airmass>>

\* number of leading float fields that convert (5: all of them)
RECURSIVE Converted(_)
Converted(fs) ==
    IF fs = <<>> THEN 0
    ELSE IF ~IsFloat(fs[1]) THEN 0
    ELSE 1 + Converted(Tail(fs))

\* `self.<mapping>[_d] = float(tok)`, the i-th of the five float stores of a
\* pass in which the first n conversions succeed: it is reached and done
\* when i <= n
StoredNotLast(d, k, tok, n, i) ==
    IF i <= n /\ i < 5 THEN Put(d, k, ParseFloat(tok)) ELSE d

Stored(d, k, tok, n, i) ==
    IF i <= n THEN Put(d, k, ParseFloat(tok)) ELSE d

NoKey == <<>>

\* one pass of the loop body of _read_dither on the line at the cursor
ParseDitherLine ==
    /\ pc = "loop"
    /\ pos < Len(text)
    /\ pos' = LineEnd(text, pos)
    /\ LET raw == ReadLine(text, pos)
           l == Unpack(raw, loc) IN
       IF ~l.bound
       THEN \* `_d` is read before any line has bound it
            /\ pc' = "raised" /\ err' = "UnboundLocalError" /\ isopen' = FALSE
            /\ hist' = Append(hist, [l |-> raw, k |-> NoKey])
            /\ UNCHANGED <<basename, dx, dy, seeing, norm, airmass, loc>>
       ELSE LET m == FindAll(KeySource(l)) IN
            IF m = <<>>
            THEN /\ pc' = "raised" /\ err' = "DitherParseError" /\ isopen' = FALSE
                 /\ loc' = l
                 /\ hist' = Append(hist, [l |-> raw, k |-> NoKey])
                 /\ UNCHANGED <<basename, dx, dy, seeing, norm, airmass>>
            ELSE \E k \in Range(m) :      \* list(set(...))[0]
                 LET fs == FloatFields(l)
                     n == Converted(fs) IN
                 /\ loc' = [l EXCEPT !.d = k]
                 /\ hist' = Append(hist, [l |-> raw, k |-> k])
                 /\ basename' = Put(basename, k, l.bn)
                 /\ dx' = Stored(dx, k, fs[1], n, 1)
                 /\ dy' = Stored(dy, k, fs[2], n, 2)
                 /\ seeing' = Stored(seeing, k, fs[3], n, 3)
                 /\ norm' = Stored(norm, k, fs[4], n, 4)
                 /\ airmass' = Stored(airmass, k, fs[5], n, 5)
                 /\ IF n = 5
                    THEN UNCHANGED <<pc, err, isopen>>
                    ELSE pc' = "raised" /\ err' = ValueError /\ isopen' = FALSE
    /\ UNCHANGED <<text, skipVars, cls, creatorVars, restVars>>

\* the iterator is exhausted: the with block closes the file, __init__ returns
ParseDitherEnd ==
    /\ pc = "loop"
    /\ pos >= Len(text)
    /\ pc' = "done"
    /\ isopen' = FALSE
    /\ UNCHANGED <<text, pos, skipVars, creatorVars, restVars>>
    /\ UNCHANGED <<basename, dx, dy, seeing, norm, airmass, loc, err, cls, hist>>

\* _BaseDither.dithers
dithers == DOMAIN basename

NextDither == EmptyDither \/ ParseDitherOpen \/ ParseDitherLine \/ ParseDitherEnd

SpecDither == InitDither /\ [][NextDither]_vars

\* ----------------------------------------------------------- claims C3 - C7
D1 == <<"D", "1">>

Parsed == cls = "ParseDither" /\ pc = "done"

\* the fields of the line read in pass i of the loop
PassFields(i) == Split(hist[i].l)

\* pass i read a data line: seven fields, not a comment
IsDataPass(i) == Len(PassFields(i)) = 7 /\ ~StartsWith(hist[i].l, HASH)

\* C3: after a successful ParseDither, and after EmptyDither, the mappings
\* basename, dx, dy, seeing, norm and airmass have the same key set, and
\* `dithers` is that key set.
C3_SameKeySets ==
    pc = "done" =>
        /\ DOMAIN dx = DOMAIN basename
        /\ DOMAIN dy = DOMAIN basename
        /\ DOMAIN seeing = DOMAIN basename
        /\ DOMAIN norm = DOMAIN basename
        /\ DOMAIN airmass = DOMAIN basename
        /\ dithers = DOMAIN airmass

\* a successful parse that stored two dithers
C3_Witness == Parsed /\ Cardinality(DOMAIN basename) = 2 /\ Len(hist) = 3

\* C4 as claimed: whenever the file holds a seven-field data line whose
\* basename (first field) has no D<digit> match, the parse of that line
\* raises DitherParseError.
C4_UntaggedBasenameRaises ==
    \A i \in 1..Len(hist) :
        (IsDataPass(i) /\ FindAll(PassFields(i)[1]) = <<>>)
            => (i = Len(hist) /\ pc = "raised" /\ err = "DitherParseError")

\* C5 as claimed: a data line whose basename holds the tag D1 more than once
\* and no other tag is stored under the key D1 and raises no error.
C5_DuplicateTagStored ==
    \A i \in 1..Len(hist) :
        (IsDataPass(i) /\ Len(FindAll(PassFields(i)[1])) >= 2
                       /\ Range(FindAll(PassFields(i)[1])) = {D1})
            => (hist[i].k = D1 /\ ~(i = Len(hist) /\ pc = "raised"))

\* C6 as claimed: a pass of the loop over a line that does not split into
\* seven fields raises nothing and changes none of the mappings, wherever
\* the line is in the file.
C6_ShortLineSkipped ==
    [][ (pc = "loop" /\ pos' # pos /\ Len(Split(ReadLine(text, pos))) # 7)
        => (pc' = "loop" /\ err' = "none"
            /\ UNCHANGED <<basename, dx, dy, seeing, norm, airmass>>) ]_vars

\* the last pass over a data line that yielded key k (0 if none)
LastPassOf(k) ==
    LET S == {i \in 1..Len(hist) : Len(PassFields(i)) = 7 /\ hist[i].k = k} IN
    IF S = {} THEN 0 ELSE CHOOSE i \in S : \A j \in S : j <= i

\* C7: after a successful parse every key holds, in each of the six mappings,
\* the values of the last data line in file order that yielded that key.
C7_LastLineWins ==
    Parsed =>
        \A k \in dithers :
            LET i == LastPassOf(k) IN
            /\ i > 0
            /\ LET f == PassFields(i) IN
               /\ basename[k] = f[1]
               /\ dx[k] = ParseFloat(f[3])
               /\ dy[k] = ParseFloat(f[4])
               /\ seeing[k] = ParseFloat(f[5])
               /\ norm[k] = ParseFloat(f[6])
               /\ airmass[k] = ParseFloat(f[7])

\* two data lines yielded D1 with different values, and another key is stored
C7_Witness ==
    /\ Parsed
    /\ Cardinality(dithers) = 2
    /\ \E i, j \in 1..Len(hist) :
         /\ i < j /\ hist[i].k = D1 /\ hist[j].k = D1
         /\ IsDataPass(i) /\ IsDataPass(j)
         /\ PassFields(i)[3] # PassFields(j)[3]

\* ------------------------------------------------------------------------
\* DitherCreator: the dither position table and the dither file writer
\* ------------------------------------------------------------------------
\* str.format of a float
RECURSIVE NatToStr(_)
NatToStr(n) ==
    IF n < 10 THEN <<Digits[n + 1]>>
    ELSE NatToStr(n \div 10) \o <<Digits[(n % 10) + 1]>>

\* n written with exactly w digits
RECURSIVE PadDigits(_, _)
PadDigits(n, w) ==
    IF w = 0 THEN <<>> ELSE PadDigits(n \div 10, w - 1) \o <<Digits[(n % 10) + 1]>>

\* a >= 0 in units of u, rounded half to even
RoundTo(a, u) ==
    LET q == a \div u
        r == a % u
    IN  IF 2 * r > u \/ (2 * r = u /\ q % 2 = 1) THEN q + 1 ELSE q

\* "{:.<d>f}".format(v): sign, integer part, '.', d decimals.  The minimum
\* widths of the formats used (4 and 5) are never more than d + 2.
FormatFixed(v, d) ==
    LET a == IF v < 0 THEN 0 - v ELSE v
        q == RoundTo(a, 10 ^ (FracDigits - d))
    IN  (IF v < 0 THEN <<"-">> ELSE <<>>)
        \o NatToStr(q \div (10 ^ d)) \o <<".">> \o PadDigits(q % (10 ^ d), d)

Spaces(n) == [i \in 1..n |-> SP]

\* the words of the header
W_BASENAME == <<"b", "a", "s", "e", "n", "a", "m", "e">>

W_MODELBASE == <<"m", "o", "d", "e", "l", "b", "a", "s", "e">>

W_DITHERX == <<"d", "i", "t", "h", "e", "r", "x">>

W_DITHERY == <<"d", "i", "t", "h", "e", "r", "y">>

W_SEEING == <<"s", "e", "e", "i", "n", "g">>

W_NORM == <<"n", "o", "r", "m">>

W_AIRMASS == <<"a", "i", "r", "m", "a", "s", "s">>

\* the header `s` of create_dither: the backslash joins the two source lines
\* of the literal into one line of text
Header ==
    <<HASH, SP>> \o W_BASENAME \o Spaces(10) \o W_MODELBASE \o Spaces(11)
    \o W_DITHERX \o <<SP>> \o W_DITHERY \o Spaces(16)
    \o W_SEEING \o <<SP>> \o W_NORM \o <<SP>> \o W_AIRMASS \o <<NL>>

\* airmass = 1.22
AIRMASS == 1220000

\* "{:s} {:s} {:f} {:f} {:4.3f} {:5.4f} {:5.4f}\n".format(...)
FormatLine(bn, mb, x, y, s, n, a) ==
    bn \o <<SP>> \o mb \o <<SP>> \o FormatFixed(x, 6) \o <<SP>> \o FormatFixed(y, 6)
    \o <<SP>> \o FormatFixed(s, 3) \o <<SP>> \o FormatFixed(n, 4)
    \o <<SP>> \o FormatFixed(a, 4) \o <<NL>>

\* The focal plane (pyhetdex.het.fplane.FPlane): the IFUs it knows
FPlaneIFUs ==
    { [ifuslot |-> "000", ifuid |-> "i0", x |-> 0, y |-> 0],
      [ifuslot |-> "001", ifuid |-> "i1", x |-> 100000, y |-> 50000] }

\* FPlane.by_id(id_, idtype) finds an IFU
Known(id, idtype) == \E u \in FPlaneIFUs : u[idtype] = id

by_id(id, idtype) == CHOOSE u \in FPlaneIFUs : u[idtype] = id

\* The shot (pyhetdex.het.telescope.Shot): image quality and normalisation at
\* a focal plane position for a dither
ShotFwhm(x, y, dither) == 1600000 + x + 1234 * dither

ShotNormalisation(x, y, dither) == 1000000 - y - 56789 * dither

\* the default value of the argument dither_positions
DefaultPositions ==
    <<[id |-> "000", vals |-> <<0, -1270000, -1270000, 0, 730000, -730000>>]>>

\* --- _store_dither_positions
\* len(dp[1:]) % 2 == 1
OddCount(dp) == Len(dp.vals) % 2 = 1

\* n_x = len(dp[1:]) // 2
NX(dp) == Len(dp.vals) \div 2

\* dp[1:n_x + 1]
XSlice(dp, n_x) == SubSeq(dp.vals, 1, n_x)

\* dp[n_x + 1:] taken one element too far
YSliceOffByOne(dp, n_x) == SubSeq(dp.vals, n_x + 2, Len(dp.vals))

\* dp[n_x + 1:]
YSlice(dp, n_x) == SubSeq(dp.vals, n_x + 1, Len(dp.vals))

\* the loop of _store_dither_positions over the rows still to store; the
\* result is the two dictionaries and the exception raised, if any
RECURSIVE StorePositions(_, _, _)
StorePositions(rows, dxs, dys) ==
    IF rows = <<>> THEN [dxs |-> dxs, dys |-> dys, err |-> "none"]
    ELSE LET dp == rows[1] IN
         IF OddCount(dp)
         THEN [dxs |-> dxs, dys |-> dys, err |-> "DitherPositionError"]
         ELSE StorePositions(Tail(rows),
                             Put(dxs, dp.id, XSlice(dp, NX(dp))),
                             Put(dys, dp.id, YSlice(dp, NX(dp))))

\* --- inputs of the model
Ids == {"000", "001"}

\* the j-th trailing value of a generated row
Val(j) == j * 365000 - 1270000

Rows ==
    {DefaultPositions[1]}
    \cup {[id |-> i, vals |-> [j \in 1..m |-> Val(j)]] : i \in Ids, m \in 0..MaxVals}

Tables == UNION {[1..k -> Rows] : k \in 0..MaxRows}

\* the i-th basename and modelbase passed to create_dither
BaseName(i) == <<"f", "D", Digits[i + 1]>>

ModelBase(i) == <<"m", Digits[i + 1]>>

InitCreator ==
    /\ text = <<>> /\ pos = 0 /\ isopen = FALSE
    /\ SkipIdle
    /\ DitherIdle
    /\ RestIdle
    /\ dither_positions \in Tables
    /\ ifu_dxs = <<>> /\ ifu_dys = <<>>
    /\ cpc = "new" /\ cerr = "none" /\ call = NoCall
    /\ outfile = NoFile

\* DitherCreator.__init__
DitherCreatorNew ==
    /\ cpc = "new"
    /\ LET r == StorePositions(dither_positions, <<>>, <<>>) IN
        /\ ifu_dxs' = r.dxs
        /\ ifu_dys' = r.dys
        /\ cerr' = r.err
        /\ cpc' = IF r.err = "none" THEN "ready" ELSE "raised"
    /\ UNCHANGED <<dither_positions, outfile, call>>
    /\ UNCHANGED <<fileVars, skipVars, ditherVars, restVars>>

\* --- create_dither
\* it.count(start=1): the dither number of the i-th row (i from 1)
DitherIndexFromZero(i) == i - 1

DitherIndex(i) == i

Min(a, b) == IF a < b THEN a ELSE b

\* the rows appended to `s`: zip stops at the shortest of its arguments
RECURSIVE DitherRows(_, _, _, _, _, _)
DitherRows(ifu, bns, mbs, dxs, dys, i) ==
    IF i > Min(Min(Len(bns), Len(mbs)), Min(Len(dxs), Len(dys))) THEN <<>>
    ELSE FormatLine(bns[i], mbs[i], dxs[i], dys[i],
                    ShotFwhm(ifu.x, ifu.y, DitherIndex(i)),
                    ShotNormalisation(ifu.x, ifu.y, DitherIndex(i)),
                    AIRMASS)
         \o DitherRows(ifu, bns, mbs, dxs, dys, i + 1)

\* the two length checks, the second one left out
CountErrorBasenamesOnly(nb, nm, n) ==
    IF nb # n THEN "DitherCreationError" ELSE "none"

\* the two length checks of create_dither
CountError(nb, nm, n) ==
    IF nb # n THEN "DitherCreationError"
    ELSE IF nm # n THEN "DitherCreationError"
    ELSE "none"

\* the exception create_dither raises before it writes, or "none"
CreateError(id, idtype, bns, mbs) ==
    IF ~Known(id, idtype) THEN "LookupError"
    ELSE IF by_id(id, idtype).ifuslot \notin DOMAIN ifu_dxs THEN "KeyError"
    ELSE CountError(Len(bns), Len(mbs), Len(ifu_dxs[by_id(id, idtype).ifuslot]))

\* the (id_, idtype) arguments create_dither is called with: two known IFUs by
\* slot, one by IFU id, and one unknown
CallIds == {<<"000", "ifuslot">>, <<"001", "ifuslot">>, <<"i1", "ifuid">>, <<"i1", "ifuslot">>}

\* DitherCreator.create_dither(id_, basenames, modelbases, outfile, idtype)
CreateDither ==
    /\ cpc = "ready"
    /\ \E a \in CallIds, nb \in 0..MaxNames, nm \in 0..MaxNames :
        LET id == a[1]
            idtype == a[2]
            bns == [i \in 1..nb |-> BaseName(i)]
            mbs == [i \in 1..nm |-> ModelBase(i)]
            e == CreateError(id, idtype, bns, mbs)
        IN  /\ call' = [id |-> id, idtype |-> idtype,
                        basenames |-> bns, modelbases |-> mbs]
            /\ cerr' = e
            /\ IF e = "none"
               THEN LET ifu == by_id(id, idtype) IN
                    outfile' = [exists |-> TRUE,
                                data |-> Header \o DitherRows(ifu, bns, mbs,
                                                     ifu_dxs[ifu.ifuslot],
                                                     ifu_dys[ifu.ifuslot], 1)]
               ELSE UNCHANGED outfile
    /\ UNCHANGED <<dither_positions, ifu_dxs, ifu_dys, cpc>>
    /\ UNCHANGED <<fileVars, skipVars, ditherVars, restVars>>

\* Specification of the construction of a DitherCreator from a table
NextCreator == DitherCreatorNew

SpecCreator == InitCreator /\ [][NextCreator]_vars

\* Specification of the writer: a DitherCreator constructed from a table with
\* an even number of values in every row, on which create_dither is called
\* any number of times on an output file that exists or not.
WriterTables ==
    {DefaultPositions}
    \cup {<<[id |-> "000", vals |-> [j \in 1..(2 * m) |-> Val(j)]]>> : m \in 0..1}
    \cup {<<[id |-> "000", vals |-> [j \in 1..(2 * m) |-> Val(j)]],
            [id |-> "001", vals |-> [j \in 1..(2 * n) |-> Val(j + 1)]]>> :
              m \in 1..2, n \in 0..2}

InitWriter ==
    /\ text = <<>> /\ pos = 0 /\ isopen = FALSE
    /\ SkipIdle
    /\ DitherIdle
    /\ RestIdle
    /\ dither_positions \in WriterTables
    /\ LET r == StorePositions(dither_positions, <<>>, <<>>) IN
        ifu_dxs = r.dxs /\ ifu_dys = r.dys /\ cerr = r.err
    /\ cpc = "ready" /\ call = NoCall
    /\ outfile \in {NoFile, [exists |-> TRUE, data |-> <<"o", "l", "d", NL>>]}

NextWriter == CreateDither

SpecWriter == InitWriter /\ [][NextWriter]_vars

\* ---------------------------------------------------------- claims C8 - C10
\* the last row of the table with identifier id
LastRowOf(id) ==
    LET S == {i \in 1..Len(dither_positions) : dither_positions[i].id = id} IN
    dither_positions[CHOOSE i \in S : \A j \in S : j <= i]

TableIds == {dither_positions[i].id : i \in 1..Len(dither_positions)}

SomeRowOdd == \E i \in 1..Len(dither_positions) : Len(dither_positions[i].vals) % 2 = 1

\* C8: construction fails with DitherPositionError when some row has an odd
\* number of trailing values; otherwise every identifier of the table has its
\* first m/2 values in ifu_dxs and its last m/2 values in ifu_dys, in order,
\* and the two sequences have the same length.
C8_PositionsSplitInHalves ==
    cpc # "new" =>
        IF SomeRowOdd
        THEN cpc = "raised" /\ cerr = "DitherPositionError"
        ELSE /\ cpc = "ready"
             /\ DOMAIN ifu_dxs = TableIds
             /\ DOMAIN ifu_dys = TableIds
             /\ \A id \in TableIds :
                  LET v == LastRowOf(id).vals
                      h == Len(v) \div 2
                  IN  /\ Len(ifu_dxs[id]) = h
                      /\ Len(ifu_dys[id]) = h
                      /\ \A j \in 1..h : ifu_dxs[id][j] = v[j] /\ ifu_dys[id][j] = v[h + j]

\* the default table: dx [0.0, -1.27, -1.27] and dy [0.0, 0.73, -0.73]
C8_Witness ==
    /\ cpc = "ready"
    /\ dither_positions = DefaultPositions
    /\ ifu_dxs["000"] = <<0, -1270000, -1270000>>
    /\ ifu_dys["000"] = <<0, 730000, -730000>>

\* the number of dithers stored for the identifier of the last call
CallDithers(c) == Len(ifu_dxs[by_id(c.id, c.idtype).ifuslot])

\* the identifier of a call resolves to an identifier of the table
Resolves(c) ==
    /\ Known(c.id, c.idtype)
    /\ by_id(c.id, c.idtype).ifuslot \in DOMAIN ifu_dxs

\* C9: a create_dither call whose basenames or modelbases differ in number
\* from the dithers stored for the identifier raises DitherCreationError and
\* leaves the output file as it was: not created, not modified.
C9_CountMismatchWritesNothing ==
    [][ (call' # NoCall /\ Resolves(call')
         /\ (Len(call'.basenames) # CallDithers(call')
             \/ Len(call'.modelbases) # CallDithers(call')))
        => (cerr' = "DitherCreationError" /\ outfile' = outfile) ]_vars

\* a call with the right number of basenames and too few modelbases, made
\* after an earlier call wrote the file
C9_Witness ==
    /\ call # NoCall /\ Resolves(call)
    /\ Len(call.basenames) = CallDithers(call)
    /\ Len(call.modelbases) < CallDithers(call)
    /\ cerr = "DitherCreationError"
    /\ outfile.exists /\ StartsWith(outfile.data, HASH)

\* the lines of a text, each with its newline
RECURSIVE LinesOf(_, _)
LinesOf(t, p) ==
    IF p >= Len(t) THEN <<>>
    ELSE <<ReadLine(t, p)>> \o LinesOf(t, LineEnd(t, p))

Abs(a) == IF a < 0 THEN 0 - a ELSE a

\* the number of decimals of a formatted float
Decimals(tok) == Len(tok) - IndexOf(tok, ".")

Wrote == call # NoCall /\ cerr = "none"

\* C10 as claimed: the file written has one line per dither and a header of
\* two lines, n + 2 lines in all.
C10_TwoLineHeader ==
    Wrote => Len(LinesOf(outfile.data, 0)) = CallDithers(call) + 2

\* C10, amended: the file written is a header comment of one line followed by
\* one newline-terminated row per dither, in dither order, n + 1 lines in
\* all; row i holds basenames[i], modelbases[i], dx[i] and dy[i] with six
\* decimals, the seeing (three decimals) and the normalisation (four
\* decimals) of the shot for dither number i, and the airmass 1.2200.
C10_FileLayout ==
    Wrote =>
        LET ls == LinesOf(outfile.data, 0)
            n == CallDithers(call)
            ifu == by_id(call.id, call.idtype)
        IN  /\ outfile.exists
            /\ Len(ls) = n + 1
            /\ ls[1] = Header
            /\ StartsWith(ls[1], HASH)
            /\ \A i \in 1..n :
                 LET f == Split(ls[i + 1]) IN
                 /\ ls[i + 1][Len(ls[i + 1])] = NL
                 /\ Len(f) = 7
                 /\ f[1] = call.basenames[i]
                 /\ f[2] = call.modelbases[i]
                 /\ \A j \in 3..7 : IsFloat(f[j])
                 /\ ParseFloat(f[3]) = ifu_dxs[ifu.ifuslot][i] /\ Decimals(f[3]) = 6
                 /\ ParseFloat(f[4]) = ifu_dys[ifu.ifuslot][i] /\ Decimals(f[4]) = 6
                 /\ 2 * Abs(ParseFloat(f[5]) - ShotFwhm(ifu.x, ifu.y, i)) <= 1000
                 /\ Decimals(f[5]) = 3
                 /\ 2 * Abs(ParseFloat(f[6]) - ShotNormalisation(ifu.x, ifu.y, i)) <= 100
                 /\ Decimals(f[6]) = 4
                 /\ f[7] = <<"1", ".", "2", "2", "0", "0">>

\* a file of three dithers written over an existing file
C10_Witness ==
    /\ Wrote
    /\ CallDithers(call) = 3
    /\ Len(LinesOf(outfile.data, 0)) = 4

\* ------------------------------------------------------------------------
\* IFUCenter: the IFU center file parser (het/ifu_centers.py)
\* ------------------------------------------------------------------------
MaxHeader == 3    \* lines before the fixed tail of a generated header
MaxFibers == 3    \* rows of a generated fiber table

IFUCenterError == "IFUCenterError"

\* str.strip(): whitespace removed at both ends
RECURSIVE LStrip(_)
LStrip(s) == IF s # <<>> /\ IsSpace(s[1]) THEN LStrip(Tail(s)) ELSE s

RECURSIVE RStrip(_)
RStrip(s) ==
    IF s # <<>> /\ IsSpace(s[Len(s)]) THEN RStrip(SubSeq(s, 1, Len(s) - 1)) ELSE s

Strip(s) == RStrip(LStrip(s))

\* str.startswith(prefix)
StartsWithStr(l, prefix) ==
    Len(l) >= Len(prefix) /\ SubSeq(l, 1, Len(prefix)) = prefix

\* int(tok) succeeds: [+-]digits with at least one digit, blanks around it
\* allowed; otherwise int raises ValueError
IsInt(tok) ==
    LET t == Strip(tok)
        b == IF StartsWith(t, "-") \/ StartsWith(t, "+") THEN Tail(t) ELSE t
    IN  b # <<>> /\ AllDigits(b)

ParseInt(tok) ==
    LET t == Strip(tok)
        b == IF StartsWith(t, "-") \/ StartsWith(t, "+") THEN Tail(t) ELSE t
    IN  IF StartsWith(t, "-") THEN 0 - DigitsVal(b) ELSE DigitsVal(b)

\* One pass of the loop of _read_header on the line read (the empty line at
\* the end of the file): what the pass does.
HeaderStepBlankSkipped(l) ==
    LET a == Strip(l) IN
    IF a = <<>> THEN "continue"
    ELSE IF ~StartsWith(a, HASH) THEN "raise"
    ELSE LET b == Strip(Tail(a)) IN
         IF ~StartsWithStr(b, <<"I", "F", "U", SP>>) /\ ~StartsWithStr(b, <<"V", "I", "F", "U">>)
         THEN "continue" ELSE "marker"

HeaderStep(l) ==
    LET a == Strip(l) IN
    IF ~StartsWith(a, HASH) THEN "raise"
    ELSE LET b == Strip(Tail(a)) IN
         IF ~StartsWithStr(b, <<"I", "F", "U", SP>>) /\ ~StartsWithStr(b, <<"V", "I", "F", "U">>)
         THEN "continue" ELSE "marker"

\* line[4:] of the marker line, the text int() is applied to
IdText(l) == LET b == Strip(Tail(Strip(l))) IN SubSeq(b, 5, Len(b))

\* IFUCenter.__init__ up to the open of the file
IFUCenterOpen ==
    /\ ipc = "new"
    /\ ipc' = "header"
    /\ isopen' = TRUE
    /\ pos' = 0
    /\ UNCHANGED text
    /\ UNCHANGED <<ifuid, fiber_d, fiber_sep, nfibx, nfiby, n_fibers, xifu, yifu,
                   fib_number, throughput, ierr, seen>>
    /\ UNCHANGED <<skipVars, ditherVars, creatorVars, confVars, lateVars>>

\* _read_header: one pass of the `while True` loop
ReadHeaderLine ==
    /\ ipc = "header"
    /\ LET l == ReadLine(text, pos)
           p == LineEnd(text, pos)
           step == HeaderStep(l)
       IN  /\ seen' = Append(seen, [phase |-> "header", l |-> l, p |-> pos])
           /\ CASE step = "raise" ->
                    /\ ipc' = "raised" /\ ierr' = IFUCenterError /\ isopen' = FALSE
                    /\ pos' = p
                    /\ UNCHANGED ifuid
                [] step = "continue" ->
                    /\ pos' = p
                    /\ UNCHANGED <<ipc, ierr, isopen, ifuid>>
                [] step = "marker" ->
                    IF IsInt(IdText(l))
                    THEN /\ ifuid' = PyInt(ParseInt(IdText(l)))
                         /\ pos' = skip_comments(text, p)
                         /\ ipc' = "body"
                         /\ UNCHANGED <<ierr, isopen>>
                    ELSE /\ ipc' = "raised" /\ ierr' = ValueError /\ isopen' = FALSE
                         /\ pos' = p
                         /\ UNCHANGED ifuid
    /\ UNCHANGED <<text, fiber_d, fiber_sep, nfibx, nfiby, n_fibers, xifu, yifu,
                   fib_number, throughput>>
    /\ UNCHANGED <<skipVars, ditherVars, creatorVars, confVars, lateVars>>

\* [float(i) for i in line.split()] / [int(i) for i in line.split()] unpacked
\* into two names succeeds
TwoFloats(l) == Len(Split(l)) = 2 /\ \A i \in 1..2 : IsFloat(Split(l)[i])

TwoInts(l) == Len(Split(l)) = 2 /\ \A i \in 1..2 : IsInt(Split(l)[i])

\* _read_header after the loop: the fiber size line, the fiber count line and
\* the comments after each
ReadHeaderBody ==
    /\ ipc = "body"
    /\ LET l1 == ReadLine(text, pos)
           p1 == LineEnd(text, pos)
           p2 == skip_comments(text, p1)
           l2 == ReadLine(text, p2)
           p3 == LineEnd(text, p2)
           p4 == skip_comments(text, p3)
       IN  IF ~TwoFloats(l1)
           THEN /\ ipc' = "raised" /\ ierr' = ValueError /\ isopen' = FALSE
                /\ pos' = p1
                /\ seen' = Append(seen, [phase |-> "body", l |-> l1, p |-> pos])
                /\ UNCHANGED <<fiber_d, fiber_sep, nfibx, nfiby>>
           ELSE /\ fiber_d' = ParseFloat(Split(l1)[1])
                /\ fiber_sep' = ParseFloat(Split(l1)[2])
                /\ seen' = seen \o <<[phase |-> "body", l |-> l1, p |-> pos],
                                     [phase |-> "body", l |-> l2, p |-> p2]>>
                /\ IF ~TwoInts(l2)
                   THEN /\ ipc' = "raised" /\ ierr' = ValueError /\ isopen' = FALSE
                        /\ pos' = p3
                        /\ UNCHANGED <<nfibx, nfiby>>
                   ELSE /\ nfibx' = ParseInt(Split(l2)[1])
                        /\ nfiby' = ParseInt(Split(l2)[2])
                        /\ pos' = p4
                        /\ ipc' = "rows"
                        /\ UNCHANGED <<ierr, isopen>>
    /\ UNCHANGED <<text, ifuid, n_fibers, xifu, yifu, fib_number, throughput>>
    /\ UNCHANGED <<skipVars, ditherVars, creatorVars, confVars, lateVars>>

\* a lookup that forgets what the dictionary holds
GetFresh(d, k, default) == default

\* defaultdict lookup: the default of a missing key (the lookup of
\* d[k].append(v) stores the default before v is evaluated)
Get(d, k, default) == IF k \in DOMAIN d THEN d[k] ELSE default

\* the fiber number test of _read_ifu_map: the token is an integer, and it is
\* positive
LiveZeroToo(fib_n) == IsInt(fib_n) /\ ParseInt(fib_n) >= 0

Live(fib_n) == IsInt(fib_n) /\ ParseInt(fib_n) > 0

\* the throughput test of _read_ifu_map: the row is refused
RefusedZeroToo(t) == t <= 0

Refused(t) == t < 0

\* _read_ifu_map: one pass of the `for line in f` loop
ReadIfuRow ==
    /\ ipc = "rows"
    /\ pos < Len(text)
    /\ LET l == ReadLine(text, pos)
           f == Split(l)
           raise(e) == ipc' = "raised" /\ ierr' = e /\ isopen' = FALSE
           same == UNCHANGED <<ipc, ierr, isopen>>
       IN  /\ pos' = LineEnd(text, pos)
           /\ seen' = Append(seen, [phase |-> "rows", l |-> l, p |-> pos])
           /\ IF StartsWith(l, HASH)
              THEN same /\ UNCHANGED <<n_fibers, xifu, yifu, fib_number, throughput>>
              ELSE IF Len(f) < 6
              THEN raise(ValueError)
                   /\ UNCHANGED <<n_fibers, xifu, yifu, fib_number, throughput>>
              ELSE LET x == f[2]
                       y == f[3]
                       channel == f[4]
                       fib_n == f[5]
                       t == f[6]
                   IN  IF ~Live(fib_n)
                       THEN same /\ UNCHANGED <<n_fibers, xifu, yifu, fib_number,
                                                throughput>>
                       ELSE IF ~IsFloat(t)
                       THEN raise(ValueError)
                            /\ UNCHANGED <<n_fibers, xifu, yifu, fib_number,
                                           throughput>>
                       ELSE IF Refused(ParseFloat(t))
                       THEN raise(IFUCenterError)
                            /\ UNCHANGED <<n_fibers, xifu, yifu, fib_number,
                                           throughput>>
                       ELSE /\ n_fibers' = Put(n_fibers, channel,
                                               Get(n_fibers, channel, 0) + 1)
                            /\ IF ~IsFloat(x)
                               THEN raise(ValueError)
                                    /\ xifu' = Put(xifu, channel,
                                                   Get(xifu, channel, <<>>))
                                    /\ UNCHANGED <<yifu, fib_number, throughput>>
                               ELSE /\ xifu' = Put(xifu, channel,
                                         Append(Get(xifu, channel, <<>>), ParseFloat(x)))
                                    /\ IF ~IsFloat(y)
                                       THEN raise(ValueError)
                                            /\ yifu' = Put(yifu, channel,
                                                           Get(yifu, channel, <<>>))
                                            /\ UNCHANGED <<fib_number, throughput>>
                                       ELSE /\ same
                                            /\ yifu' = Put(yifu, channel,
                                                 Append(Get(yifu, channel, <<>>),
                                                        ParseFloat(y)))
                                            /\ fib_number' = Put(fib_number, channel,
                                                 Append(Get(fib_number, channel, <<>>),
                                                        ParseInt(fib_n)))
                                            /\ throughput' = Put(throughput, channel,
                                                 Append(Get(throughput, channel, <<>>),
                                                        ParseFloat(t)))
    /\ UNCHANGED <<text, ifuid, fiber_d, fiber_sep, nfibx, nfiby>>
    /\ UNCHANGED <<skipVars, ditherVars, creatorVars, confVars, lateVars>>

\* the end of the file ends the loop of _read_ifu_map; the `with` block closes
\* the file and the constructor returns
IFUCenterEnd ==
    /\ ipc = "rows"
    /\ pos >= Len(text)
    /\ ipc' = "done"
    /\ isopen' = FALSE
    /\ UNCHANGED <<text, pos>>
    /\ UNCHANGED <<ifuid, fiber_d, fiber_sep, nfibx, nfiby, n_fibers, xifu, yifu,
                   fib_number, throughput, ierr, seen>>
    /\ UNCHANGED <<skipVars, ditherVars, creatorVars, confVars, lateVars>>

\* channels property
channels == DOMAIN n_fibers

\* The lines the header of a generated IFU center file is made of: comments
\* with and without the bundle marker, a data line, an empty line.
HeaderLines ==
    { Line(<<<<HASH>>, <<"c">>>>),
      Line(<<<<HASH>>, <<"I", "F", "U">>, <<"0", "1">>>>),
      Line(<<<<HASH, "V", "I", "F", "U", "2">>>>),
      Line(<<<<"1", ".", "5">>, <<"2", ".", "2">>>>),
      <<NL>>,
      <<SP>> \o Line(<<<<HASH>>, <<"c">>>>),
      Line(<<<<HASH>>, <<"I", "F", "U">>, <<"x">>>>) }

\* what follows the generated header lines: the fiber size line, the fiber
\* count line and one fiber row
HeaderTail ==
    Concat(<<Line(<<<<"1", ".", "5">>, <<"2", ".", "2">>>>),
            Line(<<<<"2", "0">>, <<"2", "3">>>>),
            Line(<<<<"1">>, <<"-", "1", ".", "5">>, <<"2", ".", "5">>, <<"L">>, <<"1">>, <<"0", ".", "9">>>>)>>)

HeaderFiles ==
    {Concat(ls) \o HeaderTail :
        ls \in UNION {[1..k -> HeaderLines] : k \in 0..MaxHeader}}

\* a complete header, comments between its lines
GoodHeader ==
    Concat(<<Line(<<<<HASH>>, <<"I", "F", "U">>, <<"0", "1">>>>),
            Line(<<<<HASH>>, <<"c">>>>),
            Line(<<<<"1", ".", "5">>, <<"2", ".", "2">>>>),
            Line(<<<<HASH>>, <<"c">>>>),
            Line(<<<<"2", "0">>, <<"2", "3">>>>),
            Line(<<<<HASH>>, <<"c">>>>)>>)

\* The rows of a generated fiber table (id x y channel fiber-number
\* throughput): live fibers of two channels, throughput positive, zero and
\* negative; fiber numbers negative, zero and not a number; a comment; a row
\* whose x is not a number.
IfuRows ==
    { Line(<<<<"1">>, <<"-", "1", ".", "5">>, <<"2", ".", "5">>, <<"L">>, <<"1">>, <<"0", ".", "9">>>>),
      Line(<<<<"2">>, <<"3", ".", "5">>, <<"4", ".", "5">>, <<"R">>, <<"2">>, <<"0", ".", "5">>>>),
      Line(<<<<"3">>, <<"5", ".", "5">>, <<"6", ".", "5">>, <<"L">>, <<"3">>, <<"0", ".", "0">>>>),
      Line(<<<<"4">>, <<"7", ".", "5">>, <<"8", ".", "5">>, <<"L">>, <<"4">>, <<"-", "0", ".", "1">>>>),
      Line(<<<<"5">>, <<"1">>, <<"1">>, <<"L">>, <<"-", "5">>, <<"-", "0", ".", "1">>>>),
      Line(<<<<"6">>, <<"1">>, <<"1">>, <<"R">>, <<"n", "a", "n">>, <<"x">>>>),
      Line(<<<<"7">>, <<"1">>, <<"1">>, <<"R">>, <<"0">>, <<"-", "1">>>>),
      Line(<<<<HASH>>, <<"c">>>>),
      Line(<<<<"9">>, <<"q">>, <<"2">>, <<"L">>, <<"9">>, <<"1">>>>) }

RowFiles ==
    {GoodHeader \o Concat(ls) :
        ls \in UNION {[1..k -> IfuRows] : k \in 0..MaxFibers}}

InitIfu ==
    /\ text \in HeaderFiles \cup RowFiles
    /\ pos = 0
    /\ isopen = FALSE
    /\ SkipIdle
    /\ DitherIdle
    /\ CreatorIdle
    /\ RestIdle

NextIfu ==
    IFUCenterOpen \/ ReadHeaderLine \/ ReadHeaderBody \/ ReadIfuRow \/ IFUCenterEnd

\* Specification of the construction of an IFUCenter from a file
SpecIfu == InitIfu /\ [][NextIfu]_vars

\* ----------------------------------------------------------- claims C11..C15
\* a '#' comment of the header: '#' is the first character that is not blank
IsHeaderComment(l) ==
    \E i \in 1..Len(l) : l[i] = HASH /\ \A j \in 1..(i - 1) : IsSpace(l[j])

\* a comment carrying the bundle marker: "IFU " or "VIFU" is the first text
\* after the '#'
CarriesMarker(l) ==
    \E i \in 1..Len(l) : \E k \in (i + 1)..Len(l) :
        /\ l[i] = HASH
        /\ \A j \in (1..(i - 1)) \cup ((i + 1)..(k - 1)) : IsSpace(l[j])
        /\ k + 3 <= Len(l)
        /\ \/ SubSeq(l, k, k + 3) = <<"I", "F", "U", SP>>
           \/ SubSeq(l, k, k + 3) = <<"V", "I", "F", "U">>

\* reading t from offset p, a line that is not a comment, or the end of the
\* file, comes before any comment carrying the marker
RECURSIVE MarkerLessFrom(_, _)
MarkerLessFrom(t, p) ==
    IF p >= Len(t) THEN TRUE
    ELSE LET l == ReadLine(t, p) IN
         IF ~IsHeaderComment(l) THEN TRUE
         ELSE IF CarriesMarker(l) THEN FALSE
         ELSE MarkerLessFrom(t, LineEnd(t, p))

MarkerLess == MarkerLessFrom(text, 0)

\* C11: when a line that is not a '#' comment, or the end of the file, comes
\* before a comment carrying the "IFU " / "VIFU" marker, the constructor never
\* gets past the header scan and what it raises is IFUCenterError, so no
\* IFUCenter is produced; and the header scan ends on every file, because each
\* pass of its loop either ends the scan or moves the cursor forward, within
\* the file.
C11_HeaderScanFailsAndEnds ==
    [][ /\ MarkerLess =>
            /\ ipc' \in {"header", "raised"}
            /\ ierr' \in {"none", IFUCenterError}
            /\ ipc' = "raised" <=> ierr' = IFUCenterError
        /\ ipc = "header" =>
            /\ ipc' # "header" \/ pos' > pos
            /\ pos' <= Len(text) ]_vars

\* a data line was read before any marker and the constructor raised
C11_Witness ==
    /\ MarkerLess
    /\ ipc = "raised" /\ ierr = IFUCenterError
    /\ Len(seen) >= 2
    /\ seen[Len(seen)].phase = "header"
    /\ Strip(seen[Len(seen)].l) # <<>>
    /\ \A i \in 1..(Len(seen) - 1) : IsHeaderComment(seen[i].l)

\* the pass of _read_ifu_map about to be made reads a fiber row (not a
\* comment, six fields or more)
AtFiberRow ==
    /\ ipc = "rows" /\ pos < Len(text)
    /\ ~StartsWith(ReadLine(text, pos), HASH)
    /\ Len(Split(ReadLine(text, pos))) >= 6

\* the fiber number and throughput tokens of the row about to be read
RowFibN == Split(ReadLine(text, pos))[5]

RowT == Split(ReadLine(text, pos))[6]

\* C12: a fiber row whose fiber number token is not an integer, or is zero or
\* negative, changes no channel (count, x, y, fiber number, throughput) and
\* raises nothing, whatever its throughput token is: the parse goes on.
C12_DeadRowContributesNothing ==
    [][ (AtFiberRow /\ (~IsInt(RowFibN) \/ ParseInt(RowFibN) <= 0)) =>
            /\ UNCHANGED <<n_fibers, xifu, yifu, fib_number, throughput>>
            /\ ierr' = "none"
            /\ ipc' = "rows" ]_vars

\* the fields of the last line read
LastFields == Split(seen[Len(seen)].l)

\* a row with fiber number -5 and throughput -0.1 was read after a live row
\* and the parse goes on
C12_Witness ==
    /\ ipc = "rows" /\ ierr = "none"
    /\ Len(seen) >= 1 /\ seen[Len(seen)].phase = "rows"
    /\ Len(LastFields) >= 6
    /\ IsInt(LastFields[5]) /\ ParseInt(LastFields[5]) < 0
    /\ IsFloat(LastFields[6]) /\ ParseFloat(LastFields[6]) < 0
    /\ n_fibers # <<>>

\* the x, y and channel tokens of the row about to be read
RowX == Split(ReadLine(text, pos))[2]

RowY == Split(ReadLine(text, pos))[3]

RowCh == Split(ReadLine(text, pos))[4]

\* the row about to be read has a positive fiber number and numbers as
\* x, y and throughput
AtLiveRow ==
    /\ AtFiberRow
    /\ IsInt(RowFibN) /\ ParseInt(RowFibN) > 0
    /\ IsFloat(RowX) /\ IsFloat(RowY) /\ IsFloat(RowT)

\* the sequence stored for channel c in d, empty when there is none
Of(d, c) == IF c \in DOMAIN d THEN d[c] ELSE <<>>

C14_ZeroThroughputRaises ==
    [][ (AtLiveRow /\ ParseFloat(RowT) <= 0) =>
            /\ ipc' = "raised" /\ ierr' = IFUCenterError
            /\ UNCHANGED <<n_fibers, xifu, yifu, fib_number, throughput>> ]_vars

\* the fiber rows the parse read, in file order, that belong to channel c and
\* have a positive fiber number
RowsOfChannel(c) ==
    LET IsRow(e) ==
            /\ e.phase = "rows"
            /\ ~StartsWith(e.l, HASH)
            /\ Len(Split(e.l)) >= 6
            /\ Split(e.l)[4] = c
            /\ IsInt(Split(e.l)[5]) /\ ParseInt(Split(e.l)[5]) > 0
    IN  SelectSeq(seen, IsRow)

MaxTokens == 2    \* comma-separated tokens of a generated option value

NoOptionError == "NoOptionError"

NoSectionError == "NoSectionError"

COMMA == ","

DASH == "-"

\* str.split(sep) that drops the empty tokens
RECURSIVE SplitOnDropEmpty(_, _)
SplitOnDropEmpty(s, sep) ==
    LET i == IndexOf(s, sep) IN
    IF i = 0 THEN (IF s = <<>> THEN <<>> ELSE <<s>>)
    ELSE (IF i = 1 THEN <<>> ELSE <<SubSeq(s, 1, i - 1)>>)
         \o SplitOnDropEmpty(SubSeq(s, i + 1, Len(s)), sep)

\* str.split(sep): the tokens between the separators, empty ones included
RECURSIVE SplitOn(_, _)
SplitOn(s, sep) ==
    LET i == IndexOf(s, sep) IN
    IF i = 0 THEN <<s>>
    ELSE <<SubSeq(s, 1, i - 1)>> \o SplitOn(SubSeq(s, i + 1, Len(s)), sep)

UpperCase ==
    <<"A", "B", "C", "D", "E", "F", "G", "H", "I", "J", "K", "L", "M",
      "N", "O", "P", "Q", "R", "S", "T", "U", "V", "W", "X", "Y", "Z">>

LowerCase ==
    <<"a", "b", "c", "d", "e", "f", "g", "h", "i", "j", "k", "l", "m",
      "n", "o", "p", "q", "r", "s", "t", "u", "v", "w", "x", "y", "z">>

\* str.lower()
Lower(s) ==
    [i \in 1..Len(s) |->
        IF \E k \in 1..Len(UpperCase) : UpperCase[k] = s[i]
        THEN LowerCase[CHOOSE k \in 1..Len(UpperCase) : UpperCase[k] = s[i]]
        ELSE s[i]]

\* ConfigParser.BOOLEAN_STATES
BOOLEAN_STATES ==
    [w \in {<<"1">>, <<"y", "e", "s">>, <<"t", "r", "u", "e">>, <<"o", "n">>, <<"0">>, <<"n", "o">>, <<"f", "a", "l", "s", "e">>, <<"o", "f", "f">>} |->
        w \in {<<"1">>, <<"y", "e", "s">>, <<"t", "r", "u", "e">>, <<"o", "n">>}]

\* the result of a cast: the value, or the exception raised
Ok(v) == [raised |-> "none", v |-> v]

Raise(e) == [raised |-> e, v |-> PyNone]

\* _to_boolean without the lower()
to_boolean_exact(value) ==
    IF value \in DOMAIN BOOLEAN_STATES
    THEN Ok(PyBool(BOOLEAN_STATES[value]))
    ELSE Raise(ValueError)

\* _to_boolean
to_boolean(value) ==
    IF Lower(value) \in DOMAIN BOOLEAN_STATES
    THEN Ok(PyBool(BOOLEAN_STATES[Lower(value)]))
    ELSE Raise(ValueError)

\* the types passed as cast_to
Casts == {"str", "int", "float", "bool"}

\* cast_to(tok), cast_to == bool replaced by _to_boolean
Cast(cast_to, tok) ==
    CASE cast_to = "str" -> Ok(PyStr(tok))
      [] cast_to = "int" ->
            IF IsInt(tok) THEN Ok(PyInt(ParseInt(tok))) ELSE Raise(ValueError)
      [] cast_to = "float" ->
            IF IsFloat(Strip(tok)) THEN Ok(PyFloat(ParseFloat(Strip(tok))))
            ELSE Raise(ValueError)
      [] cast_to = "bool" -> to_boolean(tok)

\* [cast_to(f(t)) for t in toks]: the list, or the first exception raised
CastAll(cast_to, toks) ==
    LET r == [i \in 1..Len(toks) |-> Cast(cast_to, toks[i])] IN
    IF \E i \in 1..Len(toks) : r[i].raised # "none"
    THEN Raise(r[CHOOSE i \in 1..Len(toks) :
                    /\ r[i].raised # "none"
                    /\ \A j \in 1..(i - 1) : r[j].raised = "none"].raised)
    ELSE [raised |-> "none", v |-> [i \in 1..Len(toks) |-> r[i].v]]

\* a get that reports a missing section as a missing option
ConfGetNoSection(c, section, option) ==
    IF section \notin DOMAIN c THEN Raise(NoOptionError)
    ELSE IF option \notin DOMAIN c[section] THEN Raise(NoOptionError)
    ELSE [raised |-> "none", v |-> c[section][option]]

\* self.get(section, option) of the parent class
ConfGet(c, section, option) ==
    IF section \notin DOMAIN c THEN Raise(NoSectionError)
    ELSE IF option \notin DOMAIN c[section] THEN Raise(NoOptionError)
    ELSE [raised |-> "none", v |-> c[section][option]]

\* t.strip() of every token
StripAll(toks) == [i \in 1..Len(toks) |-> Strip(toks[i])]

\* get_list: the exception raised and the value returned
get_list(c, section, option, use_default, cast_to) ==
    LET g == ConfGet(c, section, option) IN
    IF g.raised = NoOptionError /\ use_default THEN Ok(<<>>)
    ELSE IF g.raised # "none" THEN Raise(g.raised)
    ELSE IF Strip(g.v) = <<>> THEN Ok(<<>>)
    ELSE CastAll(cast_to, StripAll(SplitOn(g.v, COMMA)))

\* v.split('-') cut after the first dash
TokensOfPair(v) ==
    LET i == IndexOf(v, DASH) IN
    IF i = 0 THEN <<v>> ELSE <<SubSeq(v, 1, i - 1), SubSeq(v, i + 1, Len(v))>>

\* v.split('-') of a group of get_list_of_list
TokensOf(v) == SplitOn(v, DASH)

\* [cast_to(i.strip()) for i in v.split('-')] with the strip left out
CastGroupNoStrip(cast_to, v) == CastAll(cast_to, TokensOf(v))

\* [cast_to(i.strip()) for i in v.split('-')]
CastGroup(cast_to, v) == CastAll(cast_to, StripAll(TokensOf(v)))

\* an empty list as the default of get_list_of_list
NonePairEmpty == <<>>

\* the default of get_list_of_list: [[None, None]]
NonePair == <<<<PyNone, PyNone>>>>

\* get_list_of_list: the exception raised and the value returned
get_list_of_list(c, section, option, use_default, cast_to) ==
    LET g == ConfGet(c, section, option) IN
    IF g.raised = NoOptionError /\ use_default THEN Ok(NonePair)
    ELSE IF g.raised # "none" THEN Raise(g.raised)
    ELSE IF Strip(g.v) = <<>> THEN Ok(NonePair)
    ELSE LET groups == SplitOn(g.v, COMMA)
             r == [i \in 1..Len(groups) |-> CastGroup(cast_to, groups[i])]
         IN  IF \E i \in 1..Len(groups) : r[i].raised # "none"
             THEN Raise(ValueError)
             ELSE [raised |-> "none", v |-> [i \in 1..Len(groups) |-> r[i].v]]

\* The tokens a generated option value is made of: numbers, words, booleans
\* in several cases, empty and blank tokens, groups of one, two and three.
ConfTokens ==
    { <<"1">>, <<SP, "2", SP>>, <<"a">>, <<>>, <<SP>>, <<"Y", "e", "s">>, <<"T", "R", "U", "E">>, <<"o", "n">>, <<"0">>, <<"N", "o">>, <<"f", "a", "l", "s", "e">>,
      <<"o", "F", "F">>, <<"3", "-", "4">>, <<"1", SP, "-", SP, "2">>, <<"a", "-", "b", "-", "c">>, <<"0", "-", SP, "n", "o">> }

RECURSIVE JoinWith(_, _)
JoinWith(toks, sep) ==
    IF toks = <<>> THEN <<>>
    ELSE IF Len(toks) = 1 THEN toks[1]
    ELSE toks[1] \o <<sep>> \o JoinWith(Tail(toks), sep)

ConfValues ==
    {JoinWith(ts, COMMA) : ts \in UNION {[1..k -> ConfTokens] : k \in 0..MaxTokens}}

\* The calls made: every cast on the option of the store, and the accessors
\* on an option and on a section that the store does not have.
ConfCalls ==
    [fn : {"get_list", "get_list_of_list"}, section : {"section"},
     option : {"option"}, use_default : {FALSE}, cast_to : Casts]
    \cup [fn : {"get_list", "get_list_of_list"}, section : {"section"},
          option : {"option"}, use_default : {TRUE}, cast_to : {"str"}]
    \cup [fn : {"get_list", "get_list_of_list"}, section : {"section", "other"},
          option : {"missing"}, use_default : BOOLEAN, cast_to : {"str"}]

\* a store of one section with one option
InitConf ==
    /\ conf \in {[s \in {"section"} |-> [o \in {"option"} |-> v]] : v \in ConfValues}
    /\ ret = NoRet
    /\ text = <<>> /\ pos = 0 /\ isopen = FALSE
    /\ SkipIdle
    /\ DitherIdle
    /\ CreatorIdle
    /\ IfuIdle
    /\ LateIdle

\* the outcome of a call, as recorded
Outcome(k, r) ==
    [fn |-> k.fn, section |-> k.section, option |-> k.option,
     use_default |-> k.use_default, cast_to |-> k.cast_to,
     raised |-> r.raised, value |-> IF r.raised = "none" THEN r.v ELSE <<>>]

\* conf.get_list(section, option, use_default, cast_to)
GetList ==
    /\ conf # <<>>
    /\ \E k \in ConfCalls :
        /\ k.fn = "get_list"
        /\ ret' = Outcome(k, get_list(conf, k.section, k.option,
                                      k.use_default, k.cast_to))
    /\ UNCHANGED conf
    /\ UNCHANGED <<fileVars, skipVars, ditherVars, creatorVars, ifuVars, lateVars>>

\* conf.get_list_of_list(section, option, use_default, cast_to)
GetListOfList ==
    /\ conf # <<>>
    /\ \E k \in ConfCalls :
        /\ k.fn = "get_list_of_list"
        /\ ret' = Outcome(k, get_list_of_list(conf, k.section, k.option,
                                              k.use_default, k.cast_to))
    /\ UNCHANGED conf
    /\ UNCHANGED <<fileVars, skipVars, ditherVars, creatorVars, ifuVars, lateVars>>

NextConf == GetList \/ GetListOfList

\* Specification of the list accessors called in any order on a store
SpecConf == InitConf /\ [][NextConf]_vars

\* ----------------------------------------------------------- claims C16..C20
\* the number of characters c in s
CountOf(s, c) == Cardinality({i \in 1..Len(s) : s[i] = c})

\* the offset of the n-th c of s; 0 for n = 0, past the end after the last
SepPos(s, c, n) ==
    IF n = 0 THEN 0
    ELSE IF n > CountOf(s, c) THEN Len(s) + 1
    ELSE CHOOSE i \in 1..Len(s) :
            s[i] = c /\ Cardinality({j \in 1..i : s[j] = c}) = n

\* the n-th piece of s between characters c
Piece(s, c, n) == SubSeq(s, SepPos(s, c, n - 1) + 1, SepPos(s, c, n) - 1)

Blank(s) == \A i \in 1..Len(s) : IsSpace(s[i])

\* the last call read an option that the store has
OnOption(fn) ==
    /\ ret.fn = fn
    /\ ret.section \in DOMAIN conf
    /\ ret.option \in DOMAIN conf[ret.section]

\* the value of the option the last call read
Raw == conf[ret.section][ret.option]

\* C16: get_list on an option of the store returns [] for an empty or blank
\* value; otherwise the value has one token per piece between commas and the
\* result is the cast of every stripped token, in order; when cast_to refuses
\* a token the call raises ValueError and returns nothing.
C16_GetListCastsEveryToken ==
    OnOption("get_list") =>
        IF Blank(Raw) THEN ret.raised = "none" /\ ret.value = <<>>
        ELSE LET n == CountOf(Raw, COMMA) + 1
                 c(i) == Cast(ret.cast_to, Strip(Piece(Raw, COMMA, i)))
             IN  IF \E i \in 1..n : c(i).raised # "none"
                 THEN ret.raised = ValueError /\ ret.value = <<>>
                 ELSE /\ ret.raised = "none"
                      /\ Len(ret.value) = n
                      /\ \A i \in 1..n : ret.value[i] = c(i).v

\* the value '1, 2 ' read with cast_to=int gave [1, 2]
C16_Witness ==
    /\ OnOption("get_list") /\ ret.cast_to = "int"
    /\ Raw = <<"1", COMMA, SP, "2", SP>>
    /\ ret.raised = "none"
    /\ ret.value = <<PyInt(1), PyInt(2)>>

\* the last call asked a section of the store for an option it does not have
OnMissingOption ==
    /\ ret.fn # "none"
    /\ ret.section \in DOMAIN conf
    /\ ret.option \notin DOMAIN conf[ret.section]

\* C17: a list accessor called for an option that an existing section does
\* not have returns its default when use_default is true ([] for get_list,
\* [[None, None]] for get_list_of_list) and raises NoOptionError when it is
\* false; the store is the same after the call.
C17_MissingOptionDefaults ==
    [][ OnMissingOption' =>
          /\ conf' = conf
          /\ IF ret'.use_default
             THEN /\ ret'.raised = "none"
                  /\ ret'.fn = "get_list" => ret'.value = <<>>
                  /\ ret'.fn = "get_list_of_list" =>
                        ret'.value = <<<<PyNone, PyNone>>>>
             ELSE ret'.raised = NoOptionError ]_vars

\* get_list_of_list returned [[None, None]] for a missing option of a store
\* whose only option has a value
C17_Witness ==
    /\ OnMissingOption
    /\ ret.fn = "get_list_of_list" /\ ret.use_default
    /\ ret.raised = "none"
    /\ Len(ret.value) = 1 /\ ret.value[1] = <<PyNone, PyNone>>
    /\ ~Blank(conf["section"]["option"])

\* the words that stand for True and for False
TrueWords == {<<"1">>, <<"y", "e", "s">>, <<"t", "r", "u", "e">>, <<"o", "n">>}

FalseWords == {<<"0">>, <<"n", "o">>, <<"f", "a", "l", "s", "e">>, <<"o", "f", "f">>}

\* the token, stripped and in lower case, is one of the eight words
IsWord(t) == Lower(Strip(t)) \in TrueWords \cup FalseWords

\* the boolean the word stands for
WordValue(t) == PyBool(Lower(Strip(t)) \in TrueWords)

\* the j-th token of the i-th group of a value of get_list_of_list
Token(v, i, j) == Piece(Piece(v, COMMA, i), DASH, j)

\* the number of tokens of the i-th group
NTokens(v, i) == CountOf(Piece(v, COMMA, i), DASH) + 1

\* C18: with cast_to=bool both accessors turn every stripped token into True
\* for 1/yes/true/on and False for 0/no/false/off, whatever the case of its
\* letters; with any other token, the empty one included, the call raises
\* ValueError and returns no list.
C18_BoolTokens ==
    /\ (OnOption("get_list") /\ ret.cast_to = "bool" /\ ~Blank(Raw)) =>
          LET n == CountOf(Raw, COMMA) + 1 IN
          IF \A i \in 1..n : IsWord(Piece(Raw, COMMA, i))
          THEN /\ ret.raised = "none"
               /\ ret.value = [i \in 1..n |-> WordValue(Piece(Raw, COMMA, i))]
          ELSE ret.raised = ValueError /\ ret.value = <<>>
    /\ (OnOption("get_list_of_list") /\ ret.cast_to = "bool" /\ ~Blank(Raw)) =>
          LET n == CountOf(Raw, COMMA) + 1 IN
          IF \A i \in 1..n : \A j \in 1..NTokens(Raw, i) : IsWord(Token(Raw, i, j))
          THEN /\ ret.raised = "none"
               /\ ret.value = [i \in 1..n |->
                                 [j \in 1..NTokens(Raw, i) |->
                                     WordValue(Token(Raw, i, j))]]
          ELSE ret.raised = ValueError /\ ret.value = <<>>

\* the value 'Yes,oFF' read with cast_to=bool gave [True, False]
C18_Witness ==
    /\ OnOption("get_list") /\ ret.cast_to = "bool"
    /\ Raw = <<"Y", "e", "s", COMMA, "o", "F", "F">>
    /\ ret.raised = "none"
    /\ ret.value = <<PyBool(TRUE), PyBool(FALSE)>>

\* the cast of the j-th token of the i-th group of the value read
CastToken(i, j) == Cast(ret.cast_to, Strip(Token(Raw, i, j)))

\* C19: get_list_of_list on an option of the store returns [[None, None]] for
\* an empty or blank value; otherwise the value is cut at the commas into
\* groups and every group at the dashes into tokens, and the result holds,
\* group by group and token by token in the order of the value, the cast of
\* every stripped token.
C19_GetListOfListCastsEveryToken ==
    OnOption("get_list_of_list") =>
        IF Blank(Raw)
        THEN ret.raised = "none" /\ ret.value = <<<<PyNone, PyNone>>>>
        ELSE LET n == CountOf(Raw, COMMA) + 1 IN
             IF \E i \in 1..n : \E j \in 1..NTokens(Raw, i) :
                    CastToken(i, j).raised # "none"
             THEN ret.raised = ValueError /\ ret.value = <<>>
             ELSE /\ ret.raised = "none"
                  /\ Len(ret.value) = n
                  /\ \A i \in 1..n :
                        /\ Len(ret.value[i]) = NTokens(Raw, i)
                        /\ \A j \in 1..NTokens(Raw, i) :
                              ret.value[i][j] = CastToken(i, j).v

\* the value '3-4,1 - 2' read with the default cast gave
\* [['3', '4'], ['1', '2']]
C19_Witness ==
    /\ OnOption("get_list_of_list") /\ ret.cast_to = "str"
    /\ Raw = <<"3", DASH, "4", COMMA, "1", SP, DASH, SP, "2">>
    /\ ret.raised = "none"
    /\ ret.value = << <<PyStr(<<"3">>), PyStr(<<"4">>)>>,
                      <<PyStr(<<"1">>), PyStr(<<"2">>)>> >>

\* C20 as claimed: a group that is not cut by '-' into exactly two tokens
\* makes get_list_of_list fail, and every inner list returned has two
\* elements.
C20_GroupsArePairs ==
    (OnOption("get_list_of_list") /\ ~Blank(Raw)) =>
        /\ (\E i \in 1..(CountOf(Raw, COMMA) + 1) : NTokens(Raw, i) # 2) =>
                ret.raised # "none"
        /\ ret.raised = "none" =>
                \A i \in 1..Len(ret.value) : Len(ret.value[i]) = 2

\* C20: get_list_of_list does not count the tokens of a group: a group with k
\* dashes gives an inner list of k + 1 elements, and the only failure of a
\* value that the store has is the ValueError of a token that cast_to
\* refuses (none with the default cast); the inner lists have two elements
\* when every group has exactly one dash, or the value is empty or blank.
C20_InnerListsFollowDashes ==
    OnOption("get_list_of_list") =>
        /\ ret.cast_to = "str" => ret.raised = "none"
        /\ ret.raised # "none" =>
              /\ ret.raised = ValueError
              /\ \E i \in 1..(CountOf(Raw, COMMA) + 1) :
                    \E j \in 1..NTokens(Raw, i) : CastToken(i, j).raised # "none"
        /\ ret.raised = "none" =>
              IF Blank(Raw) THEN Len(ret.value) = 1 /\ Len(ret.value[1]) = 2
              ELSE /\ Len(ret.value) = CountOf(Raw, COMMA) + 1
                   /\ \A i \in 1..Len(ret.value) :
                         Len(ret.value[i]) = CountOf(Piece(Raw, COMMA, i), DASH) + 1

\* the value 'a,a-b-c' read with the default cast gave [['a'], ['a', 'b', 'c']]
C20_Witness ==
    /\ OnOption("get_list_of_list") /\ ret.cast_to = "str"
    /\ Raw = <<"a", COMMA, "a", DASH, "b", DASH, "c">>
    /\ ret.raised = "none"
    /\ Len(ret.value) = 2
    /\ Len(ret.value[1]) = 1 /\ Len(ret.value[2]) = 3

\* ------------------------------------------------------------------------
\* override_conf (tools/configuration.py): options of a configuration
\* overridden by the attributes of an argparse namespace.
\* The store is section -> option -> value, the names and the values being
\* character sequences.  The store has no DEFAULT section, the names are
\* lower case and the values hold no interpolation syntax.
\* ------------------------------------------------------------------------
MaxAttrs == 2     \* attributes of the namespace given to override_conf

\* values of the attributes: None, an int, a str or a list of ints and strs
ArgNone == [type |-> "None", i |-> 0, s |-> <<>>, l |-> <<>>]

ArgInt(n) == [type |-> "int", i |-> n, s |-> <<>>, l |-> <<>>]

ArgStr(x) == [type |-> "str", i |-> 0, s |-> x, l |-> <<>>]

ArgList(items) == [type |-> "list", i |-> 0, s |-> <<>>, l |-> items]

\* str(v) of a scalar
Str(v) ==
    IF v.type = "str" THEN v.s
    ELSE IF v.type = "int" THEN NatToStr(v.i)
    ELSE <<"N", "o", "n", "e">>

\* ', '.join(toks)
RECURSIVE JoinComma(_)
JoinComma(toks) ==
    IF toks = <<>> THEN <<>>
    ELSE IF Len(toks) = 1 THEN toks[1]
    ELSE toks[1] \o <<COMMA, SP>> \o JoinComma(Tail(toks))

\* the string stored for a value: a list is joined, anything else is str(value)
Stringified(v) ==
    IF v.type = "list"
    THEN JoinComma([k \in 1..Len(v.l) |-> Str(v.l[k])])
    ELSE Str(v)

\* index of the first occurrence of the string sep in s at or after i, 0 if none
RECURSIVE FindStr(_, _, _)
FindStr(s, sep, i) ==
    IF i + Len(sep) - 1 > Len(s) THEN 0
    ELSE IF SubSeq(s, i, i + Len(sep) - 1) = sep THEN i
    ELSE FindStr(s, sep, i + 1)

\* s.split(sep) for a separator of one or more characters
RECURSIVE SplitOnStr(_, _)
SplitOnStr(s, sep) ==
    LET i == FindStr(s, sep, 1) IN
    IF i = 0 THEN <<s>>
    ELSE <<SubSeq(s, 1, i - 1)>>
         \o SplitOnStr(SubSeq(s, i + Len(sep), Len(s)), sep)

\* value in nones, with an empty list left out of nones
InNonesOnlyNone(v, nones) == v.type = "None"

\* value in nones
InNones(v, nones) == v \in nones

\* conf.set(section, option, value) on a section that exists
ConfSet(c, section, option, value) ==
    [c EXCEPT ![section] = Put(c[section], option, value)]

\* one pass of the loop of override_conf over the attribute a
OverrideStep(c, a, prefix, sep, nones) ==
    LET parts == SplitOnStr(a.attr, sep) IN
    IF ~StartsWithStr(a.attr, prefix \o sep) THEN c
    ELSE IF Len(parts) # 3 THEN c
    ELSE IF InNones(a.value, nones) THEN c
    ELSE IF ConfGet(c, parts[2], parts[3]).raised # "none" THEN c
    ELSE ConfSet(c, parts[2], parts[3], Stringified(a.value))

\* override_conf: the loop over dir(args), from the i-th attribute on
RECURSIVE override_conf_from(_, _, _, _, _, _)
override_conf_from(c, a, i, prefix, sep, nones) ==
    IF i > Len(a) THEN c
    ELSE override_conf_from(OverrideStep(c, a[i], prefix, sep, nones),
                            a, i + 1, prefix, sep, nones)

override_conf(c, a, prefix, sep, nones) ==
    override_conf_from(c, a, 1, prefix, sep, nones)

\* the arguments of the calls of the model: prefix 's', sep '__', the
\* default nones
PREFIX == <<"s">>

SEP == <<"_", "_">>

NONES == {ArgNone, ArgList(<<>>)}

\* attribute names in the order of dir(): for an option that exists, for an
\* option and for a section that do not, with two and with four segments,
\* and with another prefix
AttrNames ==
    << <<"s", "_", "_", "a">>,
       <<"s", "_", "_", "a", "_", "_", "o">>,
       <<"s", "_", "_", "a", "_", "_", "o", "_", "_", "x">>,
       <<"s", "_", "_", "a", "_", "_", "p">>,
       <<"s", "_", "_", "b", "_", "_", "o">>,
       <<"s", "_", "_", "c", "_", "_", "o">>,
       <<"t", "_", "_", "a", "_", "_", "o">> >>

ArgValues ==
    { ArgNone, ArgList(<<>>), ArgStr(<<"w">>), ArgInt(3),
      ArgList(<<ArgStr(<<"x">>), ArgStr(<<"y">>)>>),
      ArgList(<<ArgInt(1), ArgInt(20)>>) }

\* the namespaces: up to MaxAttrs attributes, listed as dir() lists them
Namespaces ==
    UNION { { [k \in 1..n |-> [attr |-> AttrNames[idx[k]], value |-> val[k]]] :
                idx \in {f \in [1..n -> 1..Len(AttrNames)] :
                            \A k \in 1..(n - 1) : f[k] < f[k + 1]},
                val \in [1..n -> ArgValues] } :
            n \in 0..MaxAttrs }

\* the store before the call: sections a and b
OverrideStore ==
    (<<"a">> :> (<<"o">> :> <<"v">> @@ <<"q">> :> <<"u">>))
    @@ (<<"b">> :> (<<"o">> :> <<"v">>))

InitOverride ==
    /\ conf = OverrideStore
    /\ args \in Namespaces
    /\ opc = "new"
    /\ ret = NoRet
    /\ text = <<>> /\ pos = 0 /\ isopen = FALSE
    /\ SkipIdle
    /\ DitherIdle
    /\ CreatorIdle
    /\ IfuIdle
    /\ RegIdle /\ WorkerIdle /\ FromIdle /\ prev = NoPrev

\* override_conf(conf, args, prefix, sep)
OverrideConf ==
    /\ opc = "new"
    /\ conf' = override_conf(conf, args, PREFIX, SEP, NONES)
    /\ opc' = "done"
    /\ UNCHANGED <<args, ret>>
    /\ UNCHANGED <<fileVars, skipVars, ditherVars, creatorVars, ifuVars>>
    /\ UNCHANGED <<regVars, workerVars, fromVars, prev>>

NextOverride == OverrideConf

SpecOverride == InitOverride /\ [][NextOverride]_vars

\* the attribute that names the option of the section: prefix, sep, section,
\* sep, option
AttrFor(section, option) == PREFIX \o SEP \o section \o SEP \o option

\* the attributes of args named after the option whose value is not in nones
Overriding(section, option) ==
    {k \in 1..Len(args) : /\ args[k].attr = AttrFor(section, option)
                          /\ args[k].value \notin NONES}

\* C21: override_conf never creates a section or an option: after the call
\* the sections and the options of each section are those of before; the
\* value of an option changes only if args has an attribute named
\* prefix sep section sep option whose value is not in nones, and then it is
\* the stringified value (a list joined with ', '); every other option keeps
\* its value.
C21_OverrideOnlyExisting ==
    [][ OverrideConf =>
          /\ DOMAIN conf' = DOMAIN conf
          /\ \A s \in DOMAIN conf :
                /\ DOMAIN conf'[s] = DOMAIN conf[s]
                /\ \A o \in DOMAIN conf[s] :
                      IF Overriding(s, o) = {}
                      THEN conf'[s][o] = conf[s][o]
                      ELSE \E k \in Overriding(s, o) :
                              conf'[s][o] = Stringified(args[k].value)
      ]_vars

\* a call made with an attribute for a missing section, one for an existing
\* option whose value is a list, and the option was overridden
C21_Witness ==
    /\ opc = "done"
    /\ \E k \in 1..Len(args) :
          /\ args[k].attr = AttrFor(<<"c">>, <<"o">>)
          /\ args[k].value \notin NONES
    /\ \E k \in 1..Len(args) :
          /\ args[k].attr = AttrFor(<<"a">>, <<"o">>)
          /\ args[k].value.type = "list"
          /\ args[k].value.l # <<>>
    /\ conf[<<"a">>][<<"o">>] = <<"1", ",", " ", "2", "0">>
    /\ DOMAIN conf = {<<"a">>, <<"b">>}

\* ------------------------------------------------------------------------
\* The workers (tools/processes.py): the registry of named workers, and the
\* pool of a worker.  A worker instance is identified by the number it got
\* when it was built, its pool is [state, joined] with state one of
\*   "none"        no pool: the jobs run in the calling process
\*   "run"         the pool accepts jobs
\*   "closed"      pool.close() was called
\*   "terminated"  pool.terminate() was called
\* The keyword arguments handed to multiprocessing.Pool are not modelled.
\* ------------------------------------------------------------------------
MaxWorkers == 2   \* names a worker is asked for

RunningPool == [state |-> "run", joined |-> FALSE]

\* _Worker.close: pool.close() then pool.join(); close() leaves the state of
\* a pool that does not run as it is
Close(p) ==
    IF p.state = "none" THEN p
    ELSE [state |-> IF p.state = "run" THEN "closed" ELSE p.state,
          joined |-> TRUE]

\* _Worker.terminate: pool.terminate() then pool.join()
Terminate(p) ==
    IF p.state = "none" THEN p
    ELSE [state |-> "terminated", joined |-> TRUE]

\* __exit__ that closes the pool whatever happened in the with block
ExitPoolClose(p, exc, aw) == Close(p)

\* _Worker.__exit__: the pool after the with block, exc telling whether the
\* block raised and aw being _always_wait
ExitPool(p, exc, aw) ==
    IF ~exc \/ aw THEN Close(p) ELSE Terminate(p)

\* what __exit__ returns, as a truth value: it returns None
ExitReturn == FALSE

\* _Worker(multiprocessing, always_wait): the instance number id
NewWorker(id, multiprocessing, aw) ==
    [id |-> id, always_wait |-> aw,
     pool |-> IF multiprocessing THEN RunningPool ELSE NoPool]

\* get_worker that builds a worker at every call
get_worker_rebuild(d, n, name, multiprocessing, aw) ==
    [dict |-> Put(d, name, NewWorker(n + 1, multiprocessing, aw)),
     worker |-> n + 1, fresh |-> TRUE]

\* get_worker(name, multiprocessing, always_wait) on the registry d, n
\* workers having been built so far: the registry after the call, the
\* instance returned and whether the call built it
get_worker(d, n, name, multiprocessing, aw) ==
    IF name \in DOMAIN d
    THEN [dict |-> d, worker |-> d[name].id, fresh |-> FALSE]
    ELSE [dict |-> Put(d, name, NewWorker(n + 1, multiprocessing, aw)),
          worker |-> n + 1, fresh |-> TRUE]

AllWorkerNames == <<"default", "w1", "w2", "w3", "w4">>

WorkerNames == {AllWorkerNames[k] : k \in 1..MaxWorkers}

InitRegistry ==
    /\ RegIdle
    /\ text = <<>> /\ pos = 0 /\ isopen = FALSE
    /\ SkipIdle
    /\ DitherIdle
    /\ CreatorIdle
    /\ IfuIdle
    /\ ConfIdle
    /\ OverIdle /\ WorkerIdle /\ FromIdle /\ prev = NoPrev

\* get_worker(name, multiprocessing=..., always_wait=...)
GetWorker ==
    \E name \in WorkerNames, multiprocessing \in BOOLEAN, aw \in BOOLEAN :
        LET r == get_worker(workers_dict, created, name, multiprocessing, aw) IN
        /\ workers_dict' = r.dict
        /\ created' = IF r.fresh THEN created + 1 ELSE created
        /\ got' = [name |-> name, multiprocessing |-> multiprocessing,
                   always_wait |-> aw, worker |-> r.worker, fresh |-> r.fresh]
        /\ UNCHANGED <<fileVars, skipVars, ditherVars, creatorVars, ifuVars,
                       confVars, overVars, workerVars, fromVars, prev>>

\* the end of a with block on a worker of the registry
ExitRegistered ==
    \E name \in DOMAIN workers_dict, exc \in BOOLEAN :
        LET w == workers_dict[name] IN
        /\ workers_dict' =
              [workers_dict EXCEPT
                 ![name].pool = ExitPool(w.pool, exc, w.always_wait)]
        /\ UNCHANGED <<created, got>>
        /\ UNCHANGED <<fileVars, skipVars, ditherVars, creatorVars, ifuVars,
                       confVars, overVars, workerVars, fromVars, prev>>

NextRegistry == GetWorker \/ ExitRegistered

SpecRegistry == InitRegistry /\ [][NextRegistry]_vars

\* a get_worker call returned in this step
Returned == got' # got

MaxParse == 2     \* lines after the header of a file given to all the parsers

IndexError == "IndexError"

\* a with block that leaves the file as it is on exit
WithExitLeak(open) == open

\* the file after the exit of `with open(...) as f`, normal or not: closed
WithExit(open) == FALSE

\* '#' in els[0]
HashIn(tok) == \E k \in 1..Len(tok) : tok[k] = HASH

\* array(toks, dtype=float)
AllFloats(toks) == \A k \in 1..Len(toks) : IsFloat(toks[k])

ToFloats(toks) == [k \in 1..Len(toks) |-> ParseFloat(toks[k])]

\* _store_dither_positions on rows whose values are strings: array(...,
\* dtype=float) raises ValueError at the first slice that holds something
\* else than a number
RECURSIVE StoreRead(_, _, _)
StoreRead(rows, dxs, dys) ==
    IF rows = <<>> THEN [dxs |-> dxs, dys |-> dys, err |-> "none"]
    ELSE LET dp == rows[1] IN
         IF OddCount(dp)
         THEN [dxs |-> dxs, dys |-> dys, err |-> "DitherPositionError"]
         ELSE IF ~AllFloats(XSlice(dp, NX(dp)))
         THEN [dxs |-> dxs, dys |-> dys, err |-> ValueError]
         ELSE IF ~AllFloats(YSlice(dp, NX(dp)))
         THEN [dxs |-> Put(dxs, dp.id, ToFloats(XSlice(dp, NX(dp)))),
               dys |-> dys, err |-> ValueError]
         ELSE StoreRead(Tail(rows),
                        Put(dxs, dp.id, ToFloats(XSlice(dp, NX(dp)))),
                        Put(dys, dp.id, ToFloats(YSlice(dp, NX(dp)))))

\* with open(dither_positions_file, 'r') as f
FromFileOpen ==
    /\ fpc = "new"
    /\ fpc' = "loop"
    /\ isopen' = TRUE
    /\ pos' = 0
    /\ dither_positions' = <<>>
    /\ UNCHANGED <<text, ferr, ifu_dxs, ifu_dys, cpc, cerr, outfile, call>>
    /\ UNCHANGED <<skipVars, ditherVars, ifuVars, confVars>>
    /\ UNCHANGED <<overVars, regVars, workerVars, prev>>

\* one pass of `for line in f`
FromFileLine ==
    /\ fpc = "loop"
    /\ pos < Len(text)
    /\ LET els == Split(ReadLine(text, pos)) IN
        /\ pos' = LineEnd(text, pos)
        /\ IF els = <<>>
           THEN /\ fpc' = "raised"
                /\ ferr' = IndexError
                /\ isopen' = WithExit(isopen)
                /\ UNCHANGED dither_positions
           ELSE /\ dither_positions' =
                     IF HashIn(els[1]) THEN dither_positions
                     ELSE Append(dither_positions,
                                 [id |-> els[1], vals |-> Tail(els)])
                /\ UNCHANGED <<fpc, ferr, isopen>>
    /\ UNCHANGED <<text, ifu_dxs, ifu_dys, cpc, cerr, outfile, call>>
    /\ UNCHANGED <<skipVars, ditherVars, ifuVars, confVars>>
    /\ UNCHANGED <<overVars, regVars, workerVars, prev>>

\* the end of the file: the with block exits, then
\* cls(fplane_file, shot, dither_positions=dither_positions)
FromFileEnd ==
    /\ fpc = "loop"
    /\ pos >= Len(text)
    /\ isopen' = WithExit(isopen)
    /\ LET r == StoreRead(dither_positions, <<>>, <<>>) IN
        /\ ifu_dxs' = r.dxs
        /\ ifu_dys' = r.dys
        /\ cerr' = r.err
        /\ cpc' = IF r.err = "none" THEN "ready" ELSE "raised"
        /\ ferr' = r.err
        /\ fpc' = IF r.err = "none" THEN "done" ELSE "raised"
    /\ UNCHANGED <<text, pos, dither_positions, outfile, call>>
    /\ UNCHANGED <<skipVars, ditherVars, ifuVars, confVars>>
    /\ UNCHANGED <<overVars, regVars, workerVars, prev>>

\* ------------------------------------------------------------------------
\* Specification of the three file parsers run one after the other, in any
\* order, on the same file: ParseDither, IFUCenter and
\* DitherCreator.from_file.
\* ------------------------------------------------------------------------
ParseLines ==
    { Line(<<<<HASH>>, <<"c">>>>),
      Line(<<<<"a", "D", "1">>, <<"a", "D", "1">>, <<"0">>, <<"0">>,
             <<"1", ".", "6">>, <<"1">>, <<"1", ".", "2", "2">>>>),
      Line(<<<<"0", "0", "0">>, <<"0">>, <<"1">>>>),
      Line(<<<<"0", "0", "0">>, <<"0">>, <<"q">>>>),
      Line(<<>>),
      Line(<<<<"1">>, <<"-", "1", ".", "5">>, <<"2", ".", "5">>, <<"L">>, <<"1">>, <<"0", ".", "9">>>>) }

ParseFiles ==
    {h \o Concat(ls) :
        h \in {<<>>, GoodHeader},
        ls \in UNION {[1..k -> ParseLines] : k \in 0..MaxParse}}

InitParse ==
    /\ text \in ParseFiles
    /\ pos = 0 /\ isopen = FALSE
    /\ SkipIdle
    /\ DitherIdle
    /\ CreatorIdle
    /\ RestIdle

\* a parser is reading the file
Reading ==
    pc = "loop" \/ ipc \in {"header", "body", "rows"} \/ fpc = "loop"

NextParse ==
    \/ ~Reading /\ ParseDitherOpen
    \/ ~Reading /\ IFUCenterOpen
    \/ ~Reading /\ FromFileOpen
    \/ ParseDitherLine
    \/ ParseDitherEnd
    \/ ReadHeaderLine
    \/ ReadHeaderBody
    \/ ReadIfuRow
    \/ IFUCenterEnd
    \/ FromFileLine
    \/ FromFileEnd

SpecParse == InitParse /\ [][NextParse]_vars

\* a parser opens the file in this step
Opening ==
    \/ pc = "new" /\ pc' = "loop"
    \/ ipc = "new" /\ ipc' = "header"
    \/ fpc = "new" /\ fpc' = "loop"

\* C23: every parse call opens a handle of its own (the file was not open
\* before the call and the call reads it from its beginning), and whenever no
\* parser is reading, be it after a normal completion or after an error
\* raised while the file was open, the handle is closed.
C23_HandleClosedOnEveryExit ==
    [][ /\ Opening =>
            /\ ~isopen /\ isopen'
            /\ pos' = IF pc' # pc THEN skip_comments(text, 0) ELSE 0
        /\ ~Reading' => ~isopen'
        /\ Reading' => isopen'
      ]_vars

\* the three parsers ran on the same file and each raised while reading it:
\* ParseDither on a first line that is too short, IFUCenter in the header and
\* from_file on an empty line; the file is closed
C23_Witness ==
    /\ pc = "raised" /\ err = "UnboundLocalError"
    /\ ipc = "raised"
    /\ fpc = "raised" /\ ferr = IndexError
    /\ ~isopen

\* C24: ParseDither processes only the lines that are not comments: a pass
\* of the loop over a line that begins with '#', wherever the line is in the
\* file, changes none of the six mappings and raises no error.
C24_CommentLinesIgnored ==
    [][ ParseDitherLine /\ StartsWith(ReadLine(text, pos), HASH) =>
            /\ pc' = "loop"
            /\ UNCHANGED <<basename, dx, dy, seeing, norm, airmass>>
      ]_vars

\* ------------------------------------------------------------------------
\* Specification of one worker (tools/processes.py): jobs submitted, run by
\* the pool or in the calling process, cleared, their results collected, and
\* the worker used as a context manager.
\* A function handed to the worker is [raises, v]: it returns the value v or
\* raises the exception number v (an Exception).  A job is the function it
\* runs and whether its result is there.
\* ------------------------------------------------------------------------
MaxJobs == 2      \* jobs a worker holds

Funcs == [raises : BOOLEAN, v : 1..2]

\* Result(func, *args, **kwargs): the function runs in __init__
Result(f) == [raises |-> f.raises, v |-> f.v, done |-> TRUE]

\* pool.apply_async of a pool that runs: the job is queued
ApplyAsync(f) == [raises |-> f.raises, v |-> f.v, done |-> FALSE]

\* job.ready()
Ready(j) == j.done

\* job.successful() of a job that is ready
Successful(j) == ~j.raises

\* what job.get() returns or raises, once the job is ready
Entry(j) == [exc |-> j.raises, v |-> j.v]

\* the last job that raised
LastFailed(js) ==
    IF \E i \in 1..Len(js) : js[i].raises
    THEN CHOOSE i \in 1..Len(js) :
            js[i].raises /\ \A k \in (i + 1)..Len(js) : ~js[k].raises
    ELSE 0

\* the first job of the list whose get() raises, 0 if none
FirstFailed(js) ==
    IF \E i \in 1..Len(js) : js[i].raises
    THEN CHOOSE i \in 1..Len(js) :
            js[i].raises /\ \A k \in 1..(i - 1) : ~js[k].raises
    ELSE 0

\* get_results(fail_safe): job.get() of every job in turn; the call blocks
\* while a job it waits for is not ready
get_results(js, fail_safe) ==
    LET ff == FirstFailed(js)
        awaited == IF fail_safe \/ ff = 0 THEN Len(js) ELSE ff
    IN  IF \E i \in 1..awaited : ~Ready(js[i])
        THEN [blocked |-> TRUE, raised |-> "none", value |-> <<>>]
        ELSE IF ~fail_safe /\ ff # 0
        THEN [blocked |-> FALSE, raised |-> "Exception",
              value |-> <<Entry(js[ff])>>]
        ELSE [blocked |-> FALSE, raised |-> "none",
              value |-> [i \in 1..Len(js) |-> Entry(js[i])]]

\* pool.join() after the exit: a pool that was closed while it ran finishes
\* its jobs, a terminated one drops them
Joined(js, p) ==
    IF p.state = "closed" THEN [i \in 1..Len(js) |-> [js[i] EXCEPT !.done = TRUE]]
    ELSE js

InitWorker ==
    /\ pool \in {NoPool, RunningPool}
    /\ always_wait \in BOOLEAN
    /\ jobs = <<>>
    /\ wres = NoOp
    /\ text = <<>> /\ pos = 0 /\ isopen = FALSE
    /\ SkipIdle
    /\ DitherIdle
    /\ CreatorIdle
    /\ IfuIdle
    /\ ConfIdle
    /\ OverIdle /\ RegIdle /\ FromIdle /\ prev = NoPrev

\* worker(func, ...)
WorkerCallOf(f) ==
    /\ Len(jobs) < MaxJobs
    /\ IF pool.state = "none"
       THEN /\ jobs' = Append(jobs, Result(f))
            /\ wres' = [NoOp EXCEPT !.op = "call", !.value = <<Entry(f)>>]
       ELSE IF pool.state = "run"
       THEN /\ jobs' = Append(jobs, ApplyAsync(f))
            /\ wres' = [NoOp EXCEPT !.op = "call", !.value = <<Entry(f)>>]
       ELSE /\ jobs' = jobs
            /\ wres' = [NoOp EXCEPT !.op = "call", !.value = <<Entry(f)>>,
                                    !.raised = ValueError]
    /\ UNCHANGED <<pool, always_wait>>
    /\ UNCHANGED <<fileVars, skipVars, ditherVars, creatorVars, ifuVars,
                   confVars, overVars, regVars, fromVars, prev>>

WorkerCall == \E f \in Funcs : WorkerCallOf(f)

\* a process of the pool finishes the job i
JobDone ==
    \E i \in 1..Len(jobs) :
        /\ pool.state = "run"
        /\ ~jobs[i].done
        /\ jobs' = [jobs EXCEPT ![i].done = TRUE]
        /\ UNCHANGED <<pool, always_wait, wres>>
        /\ UNCHANGED <<fileVars, skipVars, ditherVars, creatorVars, ifuVars,
                       confVars, overVars, regVars, fromVars, prev>>

\* worker.clear_jobs()
ClearJobs ==
    /\ jobs' = <<>>
    /\ wres' = [NoOp EXCEPT !.op = "clear_jobs"]
    /\ UNCHANGED <<pool, always_wait>>
    /\ UNCHANGED <<fileVars, skipVars, ditherVars, creatorVars, ifuVars,
                   confVars, overVars, regVars, fromVars, prev>>

\* worker.get_results(fail_safe)
GetResultsOf(fail_safe) ==
    LET r == get_results(jobs, fail_safe) IN
    /\ ~r.blocked
    /\ wres' = [NoOp EXCEPT !.op = "get_results", !.fail_safe = fail_safe,
                            !.raised = r.raised, !.value = r.value]
    /\ UNCHANGED <<pool, always_wait, jobs>>
    /\ UNCHANGED <<fileVars, skipVars, ditherVars, creatorVars, ifuVars,
                   confVars, overVars, regVars, fromVars, prev>>

GetResults == \E fail_safe \in BOOLEAN : GetResultsOf(fail_safe)

\* worker.__exit__ at the end of a with block that raised (exc) or not
WorkerExitOf(exc) ==
    /\ pool' = ExitPool(pool, exc, always_wait)
    /\ jobs' = Joined(jobs, pool')
    /\ wres' = [NoOp EXCEPT !.op = "exit", !.exc = exc, !.suppress = ExitReturn]
    /\ UNCHANGED always_wait
    /\ UNCHANGED <<fileVars, skipVars, ditherVars, creatorVars, ifuVars,
                   confVars, overVars, regVars, fromVars, prev>>

WorkerExit == \E exc \in BOOLEAN : WorkerExitOf(exc)

NextWorker == WorkerCall \/ JobDone \/ ClearJobs \/ GetResults \/ WorkerExit

SpecWorker == InitWorker /\ [][NextWorker]_vars

\* C25: at the exit of a with block, a worker with a pool closes and joins
\* it when the block raised nothing or always_wait is set: a pool that ran
\* is closed, its jobs are finished, and no pool runs any more; it
\* terminates and joins the pool when the block raised and always_wait is
\* not set; a worker without pool is left as it is; the exception of the
\* block is never suppressed.
C25_ExitClosesOrTerminates ==
    [][ \A exc \in BOOLEAN : WorkerExitOf(exc) =>
            /\ ~wres'.suppress
            /\ pool.state = "none" => pool' = pool /\ jobs' = jobs
            /\ pool.state # "none" /\ (~exc \/ always_wait) =>
                /\ pool'.joined /\ pool'.state \in {"closed", "terminated"}
                /\ pool.state = "run" =>
                      /\ pool'.state = "closed"
                      /\ \A i \in 1..Len(jobs') : Ready(jobs'[i])
            /\ pool.state # "none" /\ exc /\ ~always_wait =>
                pool' = [state |-> "terminated", joined |-> TRUE]
      ]_vars

\* a with block that raised was left on a worker with a running pool, a
\* pending job and always_wait unset: the pool is terminated and the job
\* still pending
C25_Witness ==
    /\ wres.op = "exit" /\ wres.exc /\ ~wres.suppress
    /\ ~always_wait
    /\ pool = [state |-> "terminated", joined |-> TRUE]
    /\ Len(jobs) = 1 /\ ~Ready(jobs[1])

\* the functions of the jobs, in the order of the list
Content(js) == [i \in 1..Len(js) |-> Entry(js[i])]

\* the call made with f appended exactly one job, the job of f, at the end
\* of the list; without pool the function has run when the call returns
CallAppends(f) ==
    /\ Content(jobs') = Append(Content(jobs), Entry(f))
    /\ pool.state = "none" =>
          /\ Ready(jobs'[Len(jobs')])
          /\ Successful(jobs'[Len(jobs')]) <=> ~f.raises

\* the jobs are kept in submission order until clear_jobs, and get_results
\* returns one entry per job in that order, or raises the exception of the
\* first failed job
JobsKeptAndCollected ==
    /\ ClearJobs => jobs' = <<>>
    /\ JobDone \/ GetResults \/ WorkerExit => Content(jobs') = Content(jobs)
    /\ \A fail_safe \in BOOLEAN : GetResultsOf(fail_safe) =>
          LET failed == {i \in 1..Len(jobs) : jobs[i].raises} IN
          /\ fail_safe \/ failed = {} =>
                wres'.raised = "none" /\ wres'.value = Content(jobs)
          /\ ~fail_safe /\ failed # {} =>
                /\ wres'.raised = "Exception"
                /\ \E i \in failed :
                      /\ \A k \in failed : i <= k
                      /\ wres'.value = <<Entry(jobs[i])>>
    /\ pool'.state = "none" => \A i \in 1..Len(jobs') : Ready(jobs'[i])

C27_StaleLineRestoresPrevious ==
    [][ ParseDitherLine /\ Len(Split(ReadLine(text, pos))) # 7 /\ hist # <<>> =>
            /\ pc' = "loop" /\ err' = "none"
            /\ UNCHANGED <<basename, dx, dy, seeing, norm, airmass>>
            /\ hist' = Append(hist, [l |-> ReadLine(text, pos),
                                     k |-> hist[Len(hist)].k])
      ]_vars

\* a parse that completed on a data line followed by two lines that do not
\* have seven fields: one key, three passes
C27_Witness ==
    /\ Parsed
    /\ Len(hist) = 3
    /\ Len(PassFields(1)) = 7
    /\ Len(PassFields(2)) # 7 /\ Len(PassFields(3)) # 7
    /\ hist[2].l # hist[3].l
    /\ DOMAIN basename = {hist[3].k}

\* ------------------------------------------------------------------------
\* Specification of two ParseDither calls on the same file, one after the
\* other: the DitherSet of the first is kept in prev, the second starts from
\* a new object.
\* ------------------------------------------------------------------------
\* the first call has returned or raised; ParseDither is called again on the
\* same file
ParseDitherAgain ==
    /\ cls = "ParseDither"
    /\ pc \in {"done", "raised"}
    /\ ~prev.set
    /\ prev' = [set |-> TRUE, err |-> err, basename |-> basename,
                dx |-> dx, dy |-> dy, seeing |-> seeing, norm |-> norm,
                airmass |-> airmass]
    /\ basename' = <<>> /\ dx' = <<>> /\ dy' = <<>>
    /\ seeing' = <<>> /\ norm' = <<>> /\ airmass' = <<>>
    /\ loc' = Unbound /\ pc' = "new" /\ err' = "none" /\ hist' = <<>>
    /\ UNCHANGED <<cls, fileVars, skipVars, creatorVars, ifuVars, confVars>>
    /\ UNCHANGED <<overVars, regVars, workerVars, fromVars>>

NextTwice ==
    ParseDitherOpen \/ ParseDitherLine \/ ParseDitherEnd \/ ParseDitherAgain

SpecTwice == InitDither /\ [][NextTwice]_vars

\* C28: ParseDither is a function of the content of the file: the second of
\* two parses of the same content ends as the first did, and when it
\* succeeds its six mappings are those of the first, also when a line holds
\* more than one distinct D<digit> tag.
C28_TwoParsesAgree ==
    prev.set /\ pc \in {"done", "raised"} =>
        /\ err = prev.err
        /\ pc = "done" =>
              /\ basename = prev.basename
              /\ dx = prev.dx /\ dy = prev.dy
              /\ seeing = prev.seeing /\ norm = prev.norm
              /\ airmass = prev.airmass

\* ------------------------------------------------------------------------
\* Specification of the round trip: a DitherCreator writes a dither file
\* with create_dither, any number of times, then ParseDither reads the file
\* written last.
\* ------------------------------------------------------------------------
\* ParseDither(outfile) on the file create_dither wrote: the file is opened
\* and its leading comments are skipped
ParseWrittenOpen ==
    /\ pc = "new"
    /\ call # NoCall /\ cerr = "none" /\ outfile.exists
    /\ text' = outfile.data
    /\ isopen' = TRUE
    /\ pos' = skip_comments(outfile.data, 0)
    /\ pc' = "loop"
    /\ cls' = "ParseDither"
    /\ UNCHANGED <<skipVars, creatorVars, restVars>>
    /\ UNCHANGED <<basename, dx, dy, seeing, norm, airmass, loc, err, hist>>

NextRound ==
    \/ pc = "new" /\ CreateDither
    \/ ParseWrittenOpen
    \/ ParseDitherLine
    \/ ParseDitherEnd

SpecRound == InitWriter /\ [][NextRound]_vars

\* the key of the i-th dither
Tag(i) == <<"D", Digits[i + 1]>>

\* C29: the file create_dither wrote for the n basenames tagged D1 .. Dn is
\* parsed by ParseDither without error, into the n keys D1 .. Dn, the key Di
\* holding the basename and the offsets of the i-th row.
C29_WrittenFileParsesBack ==
    cls = "ParseDither" /\ pc \in {"done", "raised"} =>
        LET n == Len(call.basenames)
            slot == by_id(call.id, call.idtype).ifuslot
        IN  /\ pc = "done"
            /\ dithers = {Tag(i) : i \in 1..n}
            /\ \A i \in 1..n :
                  /\ basename[Tag(i)] = call.basenames[i]
                  /\ dx[Tag(i)] = ifu_dxs[slot][i]
                  /\ dy[Tag(i)] = ifu_dys[slot][i]

\* the last call of a list accessor named a section the store does not have
OnMissingSection == ret.fn # "none" /\ ret.section \notin DOMAIN conf

\* C30: use_default covers a missing option only: a list accessor called for
\* a section the store does not have raises NoSectionError, with use_default
\* true as with use_default false, and the store is the same after the call.
C30_MissingSectionRaises ==
    [][ OnMissingSection' =>
          /\ conf' = conf
          /\ ret'.raised = NoSectionError
          /\ ret'.value = <<>> ]_vars

\* get_list_of_list was called with use_default=True for a section that is
\* not in the store and raised NoSectionError
C30_Witness ==
    /\ OnMissingSection
    /\ ret.fn = "get_list_of_list" /\ ret.use_default
    /\ ret.raised = NoSectionError
    /\ DOMAIN conf = {"section"}

====
